---- MODULE Spec2Model ----
(***************************************************************************)
(* Model of the SCM analytics pipeline: cost allocation with Hare-Niemeyer *)
(* rounding (src/src/allocation.py), the batch lock, batch log, pipeline   *)
(* run and rollback (src/run.py), ingestion (src/src/ingest.py) and the    *)
(* period-close ledger and adjustment log (src/src/period_close.py).       *)
(*                                                                         *)
(* Floats are modelled as exact rationals [n, d] with d > 0.  Amounts are  *)
(* integer multiples of 10^-AmtScale.  Allocated amounts are kept in the   *)
(* integer units of 10^-decimals that largest_fraction_round computes      *)
(* before its final division by factor.                                    *)
(***************************************************************************)
EXTENDS Integers, Sequences, FiniteSets, TLC

VARIABLES
    aIn,          \* arguments of one allocate_charge call
    aOut,         \* its result
    lock,         \* raw.system_batch_lock, the row lock_id = 1
    batchLog,     \* raw.system_batch_log, rows in insertion order
    pc,           \* position of each pipeline run
    bid,          \* run_pipeline's local batch_id
    nextId,       \* acquire_lock's local batch_id, before the INSERT
    err,          \* the exception a run ended with
    dry,          \* run_pipeline's dry_run argument
    started,      \* number of run_pipeline invocations so far
    charges,      \* core.fact_charge_actual
    shipments,    \* core.fact_shipment
    fileLog,      \* raw.system_file_log
    mart,         \* mart.mart_charge_allocated
    periodClose,  \* ops.ops_period_close, rows in insertion order
    adjLog,       \* ops.ops_adjustment_log, rows in insertion order
    lastCall,     \* history: per period, the last of close_period / reopen_period
    settlement,   \* core.fact_settlement
    exchangeRate, \* core.fact_exchange_rate
    costStructure,\* core.fact_cost_structure
    returns,      \* core.fact_return
    pnl,          \* the mart.mart_pnl_* tables, one field per stage
    coveragePolicy, \* config.coverage_policy
    coverage,     \* mart.mart_coverage_period
    errors,       \* what the last enforce_closed_period_coverage call returned
    loaded        \* history: hashes of the files a run has upserted into core

vars == <<aIn, aOut, lock, batchLog, pc, bid, nextId, err, dry, started,
          charges, shipments, fileLog, mart, periodClose, adjLog, lastCall,
          settlement, exchangeRate, costStructure, returns, pnl,
          coveragePolicy, coverage, errors, loaded>>

allocVars == <<aIn, aOut>>
lockVars  == <<lock, batchLog, pc, bid, nextId, err, dry, started>>
dataVars  == <<charges, shipments, fileLog, mart>>
opsVars   == <<periodClose, adjLog, lastCall>>
pnlVars   == <<settlement, exchangeRate, costStructure, returns, pnl>>
covVars   == <<coveragePolicy, coverage, errors>>
histVars  == <<loaded>>

----------------------------------------------------------------------------
(* Bounds *)

MaxTargets  == 2     \* targets of one allocate_charge call
MaxAmount   == 15    \* largest charge amount, in units of 10^-AmtScale
MaxCredit   == 5     \* largest negative charge amount, same units
MaxDecimals == 1     \* largest configured rounding.decimals
AmtScale    == 1     \* charge amounts have this many decimal places

----------------------------------------------------------------------------
(* Nullable column values: {} is NULL, {v} is the value v *)

Null == {}
Some(v) == {v}
ValueOf(x) == CHOOSE v \in x : TRUE
fill_null(x, dflt) == IF x = Null THEN dflt ELSE ValueOf(x)

RECURSIVE Pow10(_)
Pow10(k) == IF k = 0 THEN 1 ELSE 10 * Pow10(k - 1)

RECURSIVE SumSeq(_)
SumSeq(s) == IF s = <<>> THEN 0 ELSE Head(s) + SumSeq(Tail(s))

(* The rows of a table or query result, in the order the engine returns them *)
RECURSIVE RowsOf(_)
RowsOf(table) ==
    IF table = {} THEN <<>>
    ELSE LET t == CHOOSE x \in table : TRUE
         IN  <<t>> \o RowsOf(table \ {t})

RECURSIVE Concat(_)
Concat(seqs) == IF seqs = <<>> THEN <<>> ELSE Head(seqs) \o Concat(Tail(seqs))

(* Exact rationals standing for Python floats *)
Rat(n, d) == IF d < 0 THEN [n |-> -n, d |-> -d] ELSE [n |-> n, d |-> d]
RatGreater(a, b) == a.n * b.d > b.n * a.d
RatEqual(a, b) == a.n * b.d = b.n * a.d

(* math.floor(a * factor) *)
FloorScaled(a, factor) == (a.n * factor) \div a.d
(* (a * factor) - math.floor(a * factor) *)
RemainderScaled(a, factor) == Rat((a.n * factor) % a.d, a.d)

(* Python's round(x): nearest integer, halves to the even neighbour *)
PyRound(a) ==
    LET q == a.n \div a.d
        r == a.n % a.d
    IN  IF 2 * r < a.d THEN q
        ELSE IF 2 * r > a.d THEN q + 1
        ELSE IF q % 2 = 0 THEN q ELSE q + 1

Min(a, b) == IF a < b THEN a ELSE b

----------------------------------------------------------------------------
(* allocation.py *)

(* A sort on the index alone: key=lambda i: i *)
SortRankByIndex(remainders, i) == i - 1

(* Position of index i in sorted(range(n), key=lambda i: (-remainders[i], i)) *)
SortRank(remainders, i) ==
    Cardinality({j \in 1..Len(remainders) :
        \/ RatGreater(remainders[j], remainders[i])
        \/ RatEqual(remainders[j], remainders[i]) /\ j < i})

(* largest_fraction_round that floors and never hands out the shortfall *)
LfrNoShortfall(raw_amounts, total, decimals) ==
    LET factor == Pow10(decimals)
    IN  [i \in 1..Len(raw_amounts) |-> FloorScaled(raw_amounts[i], factor)]

largest_fraction_round(raw_amounts, total, decimals) ==
    IF raw_amounts = <<>> THEN <<>>
    ELSE
    LET factor     == Pow10(decimals)
        total_int  == PyRound(Rat(total.n * factor, total.d))
        floored    == [i \in 1..Len(raw_amounts) |-> FloorScaled(raw_amounts[i], factor)]
        remainders == [i \in 1..Len(raw_amounts) |-> RemainderScaled(raw_amounts[i], factor)]
        shortfall  == total_int - SumSeq(floored)
    IN  IF shortfall > 0
        THEN [i \in 1..Len(raw_amounts) |->
                IF SortRank(remainders, i) < Min(shortfall, Len(raw_amounts))
                THEN floored[i] + 1 ELSE floored[i]]
        ELSE floored

(* One basis column of a target frame *)
Column(targets, basis) == [i \in 1..Len(targets.rows) |-> targets.rows[i][basis]]
NullCount(col) == Cardinality({i \in 1..Len(col) : col[i] = Null})
NonZeroCount(col) == Cardinality({i \in 1..Len(col) : col[i] # Null /\ ValueOf(col[i]) # 0})

BasisUsable(targets, basis) ==
    /\ basis \in targets.columns
    /\ LET col == Column(targets, basis)
       IN  \/ NullCount(col) = 0 /\ NonZeroCount(col) = Len(col)
           \/ NullCount(col) < Len(col) /\ NonZeroCount(col) > 0

(* resolve_basis: the first usable basis of the priority list, <<>> for None *)
RECURSIVE resolve_basis(_, _)
resolve_basis(basis_priority, targets) ==
    IF basis_priority = <<>> THEN <<>>
    ELSE IF BasisUsable(targets, Head(basis_priority)) THEN <<Head(basis_priority)>>
    ELSE resolve_basis(Tail(basis_priority), targets)

(* targets.sort(available_sort_keys): stable, ascending by the sort key *)
RECURSIVE InsertSorted(_, _)
InsertSorted(row, sorted) ==
    IF sorted = <<>> THEN <<row>>
    ELSE IF Head(sorted).key <= row.key
         THEN <<Head(sorted)>> \o InsertSorted(row, Tail(sorted))
         ELSE <<row>> \o sorted

RECURSIVE SortTargets(_)
SortTargets(rows) ==
    IF rows = <<>> THEN <<>>
    ELSE InsertSorted(rows[Len(rows)], SortTargets(SubSeq(rows, 1, Len(rows) - 1)))

(* allocate_charge.  amount is in units of 10^-AmtScale.                    *)
(* Result: status "empty" (no targets), "no_basis" (ValueError) or "ok"    *)
(* with the sorted targets and their allocated units of 10^-decimals.      *)
allocate_charge(amount, targets, basis_priority, decimals) ==
    IF Len(targets.rows) = 0
    THEN [status |-> "empty", basis |-> <<>>, rows |-> <<>>, allocated |-> <<>>]
    ELSE
    LET resolved == resolve_basis(basis_priority, targets)
    IN  IF resolved = <<>>
        THEN [status |-> "no_basis", basis |-> <<>>, rows |-> <<>>, allocated |-> <<>>]
        ELSE
        LET basis        == resolved[1]
            sorted       == SortTargets(targets.rows)
            height       == Len(sorted)
            basis_values == [i \in 1..height |-> fill_null(sorted[i][basis], 0)]
            total_basis  == SumSeq(basis_values)
            amt          == Rat(amount, Pow10(AmtScale))
            raw_amounts  ==
                IF total_basis = 0
                THEN [i \in 1..height |-> Rat(amt.n, amt.d * height)]
                ELSE [i \in 1..height |-> Rat(basis_values[i] * amt.n, total_basis * amt.d)]
        IN  [status    |-> "ok",
             basis     |-> resolved,
             rows      |-> sorted,
             allocated |-> largest_fraction_round(raw_amounts, amt, decimals)]

----------------------------------------------------------------------------
(* Policy store: allocation.yaml and charge_policy.yaml, as AppConfig gives *)
(* them.  The files are not part of the repository; this is one valid      *)
(* configuration.                                                          *)

ChargeTypes == {"FREIGHT", "PARCEL"}

(* config.get_allocation_basis_priority(charge_type) *)
get_allocation_basis_priority(charge_type) ==
    IF charge_type = "FREIGHT" THEN <<"weight">> ELSE <<"qty", "order_count">>

(* config.allocation["rounding"]["decimals"], default 0 *)
RoundingDecimals == 0

----------------------------------------------------------------------------
(* Bounds of the pipeline model *)

NumRuns        == 2    \* concurrent run_pipeline invocations
MaxRunsStarted == 2    \* run_pipeline invocations in one behaviour
MaxAdjustments == 2    \* post_close_adjustment calls in one behaviour
MaxRollback    == 2    \* largest N of --rollback N

Runs     == 1..NumRuns
SoloRuns == {1}
Periods  == {"2024-01", "2024-02"}
(* The period the operator closes and reopens while the pipeline runs *)
ClosingPeriods == {"2024-01"}
Messages == {"pnl build failed"}

(* Files that can appear in inbox/: name order is the order of the ids.    *)
(* Amounts are in units of 10^-AmtScale (10 is 1.0).                       *)
Charge(inv, line, ct, amount, currency, period, wh) ==
    [invoice_no |-> inv, invoice_line_no |-> line, charge_type |-> ct,
     amount |-> amount, currency |-> currency, period |-> period,
     warehouse_id |-> wh, channel_store_id |-> Null]
(* period is STRFTIME(ship_date, '%Y-%m') *)
Shipment(sid, key, wh, qty, weight, period, item, store, order) ==
    [shipment_id |-> sid, key |-> key, warehouse_id |-> wh,
     qty_shipped |-> qty, weight |-> weight, period |-> period,
     item_id |-> item, channel_store_id |-> store, channel_order_id |-> order]

FileCatalog ==
    << [file_hash |-> "h1", table_name |-> "fact_charge_actual",
        rows |-> {Charge("INV1", 1, "FREIGHT", 10, "KRW", "2024-01", Null)}],
       [file_hash |-> "h2", table_name |-> "fact_charge_actual",
        rows |-> {Charge("INV1", 1, "FREIGHT", 30, "KRW", "2024-01", Null),
                  Charge("INV2", 1, "PARCEL", 20, "KRW", "2024-02", Some("WH2"))}],
       [file_hash |-> "h3", table_name |-> "fact_shipment",
        rows |-> {Shipment("S1", 1, "WH1", 1, Some(2),
                           "2024-01", "SKU1", Some("ST1"), Some("O1")),
                  Shipment("S2", 2, "WH2", 2, Null,
                           "2024-01", "SKU1", Some("ST1"), Null),
                  Shipment("S3", 3, "WH2", 1, Some(1),
                           "2024-02", "SKU2", Null, Some("O3"))}],
       [file_hash |-> "h4", table_name |-> "fact_shipment",
        rows |-> {Shipment("S1", 1, "WH1", 2, Null,
                           "2024-01", "SKU1", Some("ST1"), Some("O1"))}] >>

FileIds == 1..Len(FileCatalog)

(* The file lists inbox/ holds at a run, in ingest_all's sorted order:     *)
(* empty, one file of the catalog, or a charge file and a shipment file    *)
EmptyInbox == {<<>>}
Inboxes == EmptyInbox \cup {<<f>> : f \in FileIds} \cup {<<1, 3>>}
(* An inbox that only ever receives the first charge file *)
ChargeInboxes == {<<>>, <<1>>}

----------------------------------------------------------------------------
(* allocate_all_charges *)

(* Targets of one charge: the shipments with the derived basis columns, or *)
(* the single fallback row when there is no shipment                       *)
ShipmentTargets(ships) ==
    LET RECURSIVE rowsOf(_)
        rowsOf(S) ==
            IF S = {} THEN <<>>
            ELSE LET s == CHOOSE x \in S : \A y \in S : x.key <= y.key
                 IN  <<[key |-> s.key, warehouse_id |-> s.warehouse_id,
                        item_id |-> s.item_id,
                        channel_store_id |-> s.channel_store_id,
                        qty |-> Some(s.qty_shipped), weight |-> s.weight,
                        volume_cbm |-> Null,
                        order_count |-> Some(1), line_count |-> Some(1),
                        value |-> Some(s.qty_shipped), revenue |-> Some(1)]>>
                     \o rowsOf(S \ {s})
    IN  [columns |-> {"qty", "weight", "volume_cbm", "order_count", "line_count",
                      "value", "revenue"},
         rows |-> rowsOf(ships)]

FallbackTargets(warehouse_id, channel_store_id) ==
    [columns |-> {"qty", "order_count", "line_count", "value", "revenue"},
     rows |-> <<[key |-> 0,
                 warehouse_id |-> fill_null(warehouse_id, "UNKNOWN"),
                 item_id |-> "UNALLOCATED",
                 channel_store_id |-> Some(fill_null(channel_store_id, "UNKNOWN")),
                 qty |-> Some(1), order_count |-> Some(1), line_count |-> Some(1),
                 value |-> Some(1), revenue |-> Some(1)]>>]

TargetsFor(charge, ships) ==
    LET all == IF ships # {} THEN ShipmentTargets(ships)
               ELSE FallbackTargets(charge.warehouse_id, charge.channel_store_id)
        scoped == SelectSeq(all.rows,
                     LAMBDA t : charge.warehouse_id # Null
                                /\ t.warehouse_id = ValueOf(charge.warehouse_id))
    IN  IF charge.warehouse_id # Null /\ Len(scoped) > 0
        THEN [all EXCEPT !.rows = scoped]
        ELSE all

(* fx_map.get((period, currency)): the rate of the FX row, Null for None *)
fx_map_get(fx, period, currency) ==
    LET hit == {x \in fx : x.period = period /\ x.currency = currency}
    IN  IF hit = {} THEN Null ELSE Some((CHOOSE x \in hit : TRUE).rate_to_krw)

(* rate_to_krw = fx_map.get((period, currency), 1.0), and 1.0 for KRW *)
rate_to_krw(fx, period, currency) ==
    IF currency = "KRW" THEN 1
    ELSE fill_null(fx_map_get(fx, period, currency), 1)

(* Rows written to mart.mart_charge_allocated for one charge *)
AllocatedRows(charge, ships, fx) ==
    LET res == allocate_charge(charge.amount, TargetsFor(charge, ships),
                               get_allocation_basis_priority(charge.charge_type),
                               RoundingDecimals)
        rate == rate_to_krw(fx, charge.period, charge.currency)
    IN  IF res.status = "ok"
        THEN [i \in 1..Len(res.rows) |->
                [invoice_no       |-> charge.invoice_no,
                 invoice_line_no  |-> charge.invoice_line_no,
                 charge_type      |-> charge.charge_type,
                 period           |-> charge.period,
                 key              |-> res.rows[i].key,
                 item_id          |-> res.rows[i].item_id,
                 channel_store_id |-> res.rows[i].channel_store_id,
                 allocation_basis |-> res.basis[1],
                 allocated_amount |-> res.allocated[i],
                 allocated_amount_krw |-> Some(res.allocated[i] * rate),
                 currency         |-> charge.currency]]
        ELSE <<>>

(* A loop that ends after its first charge *)
AllocateFirstOnly(chargeRows, ships, fx) ==
    IF chargeRows = {} THEN <<>>
    ELSE AllocatedRows(CHOOSE x \in chargeRows : TRUE, ships, fx)

(* The new content of mart.mart_charge_allocated: the rows of every charge *)
(* that allocate_charge accepts; a charge it rejects is passed over        *)
RECURSIVE allocate_all_charges(_, _, _)
allocate_all_charges(chargeRows, ships, fx) ==
    IF chargeRows = {} THEN <<>>
    ELSE LET c == CHOOSE x \in chargeRows : TRUE
         IN  AllocatedRows(c, ships, fx)
                 \o allocate_all_charges(chargeRows \ {c}, ships, fx)

----------------------------------------------------------------------------
(* run.py: batch lock and batch log *)

Unlocked == [locked |-> FALSE, pid |-> Null]
NoErr == [kind |-> "none"]

BatchIds == {batchLog[i].batch_id : i \in 1..Len(batchLog)}

(* SELECT COALESCE(MAX(batch_id), 0) + 1 FROM raw.system_batch_log *)
NextBatchId ==
    IF BatchIds = {} THEN 1
    ELSE (CHOOSE m \in BatchIds : \A b \in BatchIds : b <= m) + 1

(* "if lock and lock[0]": the lock row says LOCKED *)
LockCheckDropped(l) == FALSE
LockIsHeld(l) == l.locked

(* batch_id BIGINT PRIMARY KEY: the INSERT of an existing id is rejected *)
PkCheckDropped(id) == FALSE
BatchPkViolated(id) == id \in BatchIds

InFlight == {"acq_read", "acq_update", "acq_max", "acq_insert",
             "ingest", "marts", "rel_lock", "rel_log"}
Ended == {"idle", "returned", "raised", "acq_failed", "acq_error", "crashed"}
(* Between acquire_lock's return and release_lock's UPDATE of the lock row *)
LockedSection == {"ingest", "marts", "rel_lock"}

(* main(): a new invocation of run.py --once or --dry-run *)
Start(r, dryRuns) ==
    /\ pc[r] \in Ended
    /\ started < MaxRunsStarted
    /\ started' = started + 1
    /\ \E d \in dryRuns : dry' = [dry EXCEPT ![r] = d]
    /\ pc' = [pc EXCEPT ![r] = "acq_read"]
    /\ bid' = [bid EXCEPT ![r] = 0]
    /\ nextId' = [nextId EXCEPT ![r] = 0]
    /\ err' = [err EXCEPT ![r] = NoErr]
    /\ UNCHANGED <<lock, batchLog, allocVars, dataVars, opsVars, pnlVars, covVars, histVars>>

(* acquire_lock, statement 1: SELECT locked, pid; raise when LOCKED *)
acquire_lock_read(r) ==
    /\ pc[r] = "acq_read"
    /\ IF LockIsHeld(lock)
       THEN /\ pc' = [pc EXCEPT ![r] = "acq_failed"]
            /\ err' = [err EXCEPT ![r] = [kind |-> "LockHeld", pid |-> lock.pid]]
            /\ dry' = [dry EXCEPT ![r] = FALSE]
       ELSE /\ pc' = [pc EXCEPT ![r] = "acq_update"]
            /\ UNCHANGED <<err, dry>>
    /\ UNCHANGED <<lock, batchLog, bid, nextId, started,
                   allocVars, dataVars, opsVars, pnlVars, covVars, histVars>>

(* acquire_lock, statement 2: UPDATE ... SET locked = true, pid = ? *)
acquire_lock_update(r) ==
    /\ pc[r] = "acq_update"
    /\ lock' = [locked |-> TRUE, pid |-> Some(r)]
    /\ pc' = [pc EXCEPT ![r] = "acq_max"]
    /\ UNCHANGED <<batchLog, bid, nextId, err, dry, started,
                   allocVars, dataVars, opsVars, pnlVars, covVars, histVars>>

(* acquire_lock, statement 3: SELECT COALESCE(MAX(batch_id), 0) + 1 *)
acquire_lock_max(r) ==
    /\ pc[r] = "acq_max"
    /\ nextId' = [nextId EXCEPT ![r] = NextBatchId]
    /\ pc' = [pc EXCEPT ![r] = "acq_insert"]
    /\ UNCHANGED <<lock, batchLog, bid, err, dry, started,
                   allocVars, dataVars, opsVars, pnlVars, covVars, histVars>>

(* acquire_lock, statement 4: INSERT the 'running' batch row, return batch_id. *)
(* A primary-key violation raises out of run_pipeline, before its try block.  *)
(* The locals of a call that has returned or raised are back at their       *)
(* initial values.                                                          *)
acquire_lock_insert(r) ==
    /\ pc[r] = "acq_insert"
    /\ IF BatchPkViolated(nextId[r])
       THEN /\ pc' = [pc EXCEPT ![r] = "acq_error"]
            /\ err' = [err EXCEPT ![r] = [kind |-> "Constraint"]]
            /\ dry' = [dry EXCEPT ![r] = FALSE]
            /\ UNCHANGED <<batchLog, bid>>
       ELSE /\ batchLog' = Append(batchLog,
                              [batch_id |-> nextId[r], status |-> "running",
                               error_msg |-> Null, file_count |-> 0])
            /\ bid' = [bid EXCEPT ![r] = nextId[r]]
            /\ pc' = [pc EXCEPT ![r] = "ingest"]
            /\ UNCHANGED <<err, dry>>
    /\ nextId' = [nextId EXCEPT ![r] = 0]
    /\ UNCHANGED <<lock, started, allocVars, dataVars, opsVars, pnlVars, covVars, histVars>>

(* UPDATE raw.system_batch_log SET ... WHERE batch_id = ? *)
SetFields(row, fields) ==
    [k \in DOMAIN row |-> IF k \in DOMAIN fields THEN fields[k] ELSE row[k]]

UpdateBatch(log, id, fields) ==
    [i \in 1..Len(log) |->
        IF log[i].batch_id = id THEN SetFields(log[i], fields) ELSE log[i]]

----------------------------------------------------------------------------
(* ingest.py *)

is_file_already_loaded(flog, file_hash) ==
    \E e \in flog : e.file_hash = file_hash /\ e.status = "success"

(* Business keys: the primary keys of db.py *)
SameKey(table_name, a, b) ==
    IF table_name = "fact_charge_actual"
    THEN /\ a.invoice_no = b.invoice_no
         /\ a.invoice_line_no = b.invoice_line_no
         /\ a.charge_type = b.charge_type
    ELSE a.shipment_id = b.shipment_id

(* add_system_columns: the staged row with its load_batch_id *)
Tagged(row, batch_id) == row @@ [load_batch_id |-> batch_id]

(* upsert_core: DELETE the rows with a staged business key, INSERT the staged rows *)
upsert_core(table, table_name, staged, batch_id) ==
    {t \in table : ~ \E s \in staged : SameKey(table_name, t, s)}
        \cup {Tagged(s, batch_id) : s \in staged}

(* process_file whose step 9 upserts whatever dry_run says *)
ProcessFileAlwaysUpsert(st, f, batch_id, dry_run) ==
    IF is_file_already_loaded(st.fileLog, f.file_hash)
    THEN [st EXCEPT !.fileLog = @ \cup {[batch_id |-> batch_id,
                                         file_hash |-> f.file_hash,
                                         status |-> "skipped"]}]
    ELSE IF f.table_name = "fact_charge_actual"
    THEN [st EXCEPT !.fileLog = @ \cup {[batch_id |-> batch_id,
                                         file_hash |-> f.file_hash,
                                         status |-> "success"]},
                    !.charges = upsert_core(@, f.table_name, f.rows, batch_id)]
    ELSE [st EXCEPT !.fileLog = @ \cup {[batch_id |-> batch_id,
                                         file_hash |-> f.file_hash,
                                         status |-> "success"]},
                    !.shipments = upsert_core(@, f.table_name, f.rows, batch_id)]

(* process_file on the state st = [charges, shipments, fileLog].  The files *)
(* of the catalog are non-empty and pass detection and the DQ checks.      *)
process_file(st, f, batch_id, dry_run) ==
    IF is_file_already_loaded(st.fileLog, f.file_hash)
    THEN [st EXCEPT !.fileLog = @ \cup {[batch_id |-> batch_id,
                                         file_hash |-> f.file_hash,
                                         status |-> "skipped"]}]
    ELSE
    LET logged == st.fileLog \cup {[batch_id |-> batch_id,
                                    file_hash |-> f.file_hash,
                                    status |-> "success"]}
    IN  IF dry_run
        THEN [st EXCEPT !.fileLog = logged]
        ELSE IF f.table_name = "fact_charge_actual"
        THEN [st EXCEPT !.fileLog = logged,
                        !.charges = upsert_core(@, f.table_name, f.rows, batch_id)]
        ELSE [st EXCEPT !.fileLog = logged,
                        !.shipments = upsert_core(@, f.table_name, f.rows, batch_id)]

(* ingest_all: the files of inbox/ in name order *)
RECURSIVE ingest_all(_, _, _, _)
ingest_all(st, inbox, batch_id, dry_run) ==
    IF inbox = <<>> THEN st
    ELSE ingest_all(process_file(st, FileCatalog[Head(inbox)], batch_id, dry_run),
                    Tail(inbox), batch_id, dry_run)

----------------------------------------------------------------------------
(* period_close.py *)

PeriodRows(p) == {i \in 1..Len(periodClose) : periodClose[i].period = p}

close_period(p) ==
    /\ IF PeriodRows(p) # {}
       THEN periodClose' = [i \in 1..Len(periodClose) |->
                              IF periodClose[i].period = p
                              THEN [periodClose[i] EXCEPT !.lock_flag = TRUE]
                              ELSE periodClose[i]]
       ELSE periodClose' = Append(periodClose, [period |-> p, lock_flag |-> TRUE])
    /\ lastCall' = [lastCall EXCEPT ![p] = "close"]
    /\ UNCHANGED <<adjLog, allocVars, lockVars, dataVars, pnlVars, covVars, histVars>>

(* is_period_closed that looks only for a ledger row, not at its lock_flag *)
ClosedIfRowExists(p) == PeriodRows(p) # {}

(* fetchone(): the first row of the period, False when there is none *)
is_period_closed(p) ==
    /\ PeriodRows(p) # {}
    /\ periodClose[CHOOSE i \in PeriodRows(p) : \A j \in PeriodRows(p) : i <= j].lock_flag

reopen_period(p) ==
    /\ periodClose' = [i \in 1..Len(periodClose) |->
                         IF periodClose[i].period = p
                         THEN [periodClose[i] EXCEPT !.lock_flag = FALSE]
                         ELSE periodClose[i]]
    /\ lastCall' = [lastCall EXCEPT ![p] = "reopen"]
    /\ UNCHANGED <<adjLog, allocVars, lockVars, dataVars, pnlVars, covVars, histVars>>

(* "raise" for the ValueError, "ok" for a normal return *)
check_period_for_ingestion(p) == IF is_period_closed(p) THEN "raise" ELSE "ok"

AdjustmentIds == {adjLog[i].adjustment_id : i \in 1..Len(adjLog)}

(* The id query without its "+ 1" once the log is not empty *)
AdjustmentIdNoIncrement ==
    IF AdjustmentIds = {} THEN 1
    ELSE CHOOSE m \in AdjustmentIds : \A a \in AdjustmentIds : a <= m

(* SELECT COALESCE(MAX(adjustment_id), 0) + 1 FROM ops.ops_adjustment_log *)
NextAdjustmentId ==
    IF AdjustmentIds = {} THEN 1
    ELSE (CHOOSE m \in AdjustmentIds : \A a \in AdjustmentIds : a <= m) + 1

post_close_adjustment(p, new_value) ==
    /\ Len(adjLog) < MaxAdjustments
    /\ adjLog' = Append(adjLog, [adjustment_id |-> NextAdjustmentId,
                                 period |-> p, new_value |-> new_value])
    /\ UNCHANGED <<periodClose, lastCall, allocVars, lockVars, dataVars, pnlVars, covVars, histVars>>

----------------------------------------------------------------------------
(* mart_pnl.py *)

Actual  == Some("ACTUAL")
Partial == Some("PARTIAL")

(* SUM(col): NULL when every value is NULL *)
SumNullable(col) ==
    IF \A i \in 1..Len(col) : col[i] = Null THEN Null
    ELSE Some(SumSeq([i \in 1..Len(col) |-> fill_null(col[i], 0)]))

(* COALESCE(flag, 'PARTIAL') = 'ACTUAL' *)
FlagIsActual(flag) == fill_null(flag, "PARTIAL") = "ACTUAL"

(* r.period = c.period AND r.item_id = c.item_id AND                       *)
(* r.channel_store_id = c.channel_store_id                                 *)
SameGrain(a, b) ==
    /\ a.period = b.period
    /\ a.item_id = b.item_id
    /\ a.channel_store_id = b.channel_store_id

(* A revenue lookup that falls back to rate 1.0 when the FX row is missing *)
RevenueRateDefaultOne(fx, period, currency) ==
    IF currency = "KRW" THEN Some(1)
    ELSE Some(fill_null(fx_map_get(fx, period, currency), 1))

(* The rate of one settlement row: 1.0 for KRW, else fx_map.get, Null for  *)
(* a missing FX row                                                        *)
RevenueRate(fx, period, currency) ==
    IF currency = "KRW" THEN Some(1)
    ELSE fx_map_get(fx, period, currency)

(* One row of mart.mart_pnl_revenue from one settlement row *)
RevenueRow(s, fx) ==
    LET rate == RevenueRate(fx, s.period, s.currency)
        krw(x) == IF rate = Null THEN Null ELSE Some(fill_null(x, 0) * ValueOf(rate))
    IN  [period           |-> s.period,
         item_id          |-> s.item_id,
         channel_store_id |-> s.channel_store_id,
         country          |-> "KR",
         gross_sales_krw  |-> krw(s.gross_sales),
         discounts_krw    |-> krw(s.discounts),
         refunds_krw      |-> krw(s.refunds),
         net_revenue_krw  |-> krw(s.net_payout),
         source           |-> "settlement",
         coverage_flag    |-> IF rate = Null THEN Partial ELSE Actual]

(* build_mart_pnl_revenue: one row per settlement row *)
build_mart_pnl_revenue(settlementRows, fx) ==
    LET rows == RowsOf(settlementRows)
    IN  [i \in 1..Len(rows) |-> RevenueRow(rows[i], fx)]

(* Dates are first days of the months of 2024, written as month numbers;   *)
(* LAST_DAY(CAST(period || '-01' AS DATE)) falls in the period's month     *)
MonthOf(period) == IF period = "2024-01" THEN 1 ELSE 2

(* CTE shipped: sales shipments grouped by period, item and channel store *)
ShippedGrains(ships) ==
    {[period |-> s.period, item_id |-> s.item_id,
      channel_store_id |-> fill_null(s.channel_store_id, "UNKNOWN")] :
        s \in {x \in ships : x.channel_order_id # Null}}

ShippedQty(ships, g) ==
    LET rows == RowsOf({s \in ships :
                    /\ s.channel_order_id # Null
                    /\ s.period = g.period
                    /\ s.item_id = g.item_id
                    /\ fill_null(s.channel_store_id, "UNKNOWN") = g.channel_store_id})
    IN  SumSeq([i \in 1..Len(rows) |-> rows[i].qty_shipped])

(* CTE cost_agg: cost components summed per (item_id, effective_from) *)
cost_agg(costs) ==
    {[item_id |-> k[1], effective_from |-> k[2],
      unit_cost_krw |->
          LET rows == RowsOf({c \in costs : c.item_id = k[1]
                                            /\ c.effective_from = k[2]})
          IN  SumSeq([i \in 1..Len(rows) |-> rows[i].cost_per_unit_krw])] :
        k \in {<<c.item_id, c.effective_from>> : c \in costs}}

(* An as-of lookup that takes the item's newest cost, whatever the period *)
AsOfCostNewest(costs, item_id, period) ==
    LET cand == {c \in cost_agg(costs) : c.item_id = item_id}
    IN  IF cand = {} THEN Null
        ELSE Some((CHOOSE c \in cand :
                     \A d \in cand : d.effective_from <= c.effective_from).unit_cost_krw)

(* CTE cost_ranked, rn = 1: the cost with the latest effective_from that   *)
(* is not after the period's last day, Null when the item has none         *)
AsOfCost(costs, item_id, period) ==
    LET cand == {c \in cost_agg(costs) : c.item_id = item_id
                                        /\ c.effective_from <= MonthOf(period)}
    IN  IF cand = {} THEN Null
        ELSE Some((CHOOSE c \in cand :
                     \A d \in cand : d.effective_from <= c.effective_from).unit_cost_krw)

(* CTE returned, left-joined on period and item: COALESCE(qty_returned, 0) *)
ReturnedQty(rets, g) ==
    LET rows == RowsOf({r \in rets :
                    /\ r.channel_order_id # Null
                    /\ r.period = g.period
                    /\ r.item_id = g.item_id})
    IN  SumSeq([i \in 1..Len(rows) |-> rows[i].qty_returned])

(* One row of mart.mart_pnl_cogs *)
CogsRow(g, ships, rets, costs) ==
    LET qty  == ShippedQty(ships, g)
        back == ReturnedQty(rets, g)
        cost == AsOfCost(costs, g.item_id, g.period)
    IN  [period           |-> g.period,
         item_id          |-> g.item_id,
         channel_store_id |-> g.channel_store_id,
         country          |-> "KR",
         qty_shipped      |-> qty,
         qty_returned     |-> back,
         qty_net          |-> qty - back,
         unit_cost_krw    |-> cost,
         cogs_krw         |-> IF cost # Null THEN Some((qty - back) * ValueOf(cost))
                              ELSE Null,
         coverage_flag    |-> IF cost # Null THEN Actual ELSE Partial]

(* A window partitioned by period and item only *)
PartitionByPeriodItem(g) == <<g.period, g.item_id>>

(* ROW_NUMBER() OVER (PARTITION BY sn.period, sn.item_id,                  *)
(* sn.channel_store_id ORDER BY ca.effective_from DESC)                    *)
PartitionKey(g) == <<g.period, g.item_id, g.channel_store_id>>

(* WHERE rn = 1: one row per window partition. The rows of a partition     *)
(* that share the latest effective_from differ only in their grain, and    *)
(* the engine numbers them in any order. With one row per grain the        *)
(* duplicate-grain check passes and the rows are inserted.                 *)
build_mart_pnl_cogs(ships, rets, costs) ==
    LET shipped == ShippedGrains(ships)
        first(k) == CHOOSE g \in shipped : PartitionKey(g) = k
        grains == RowsOf({first(k) : k \in {PartitionKey(g) : g \in shipped}})
    IN  [i \in 1..Len(grains) |-> CogsRow(grains[i], ships, rets, costs)]

(* FROM left FULL OUTER JOIN right ON the grain: the joined pairs, a side  *)
(* without a partner paired with Null                                      *)
FullOuterJoin(left, right) ==
    LET partners(l) == SelectSeq(right, LAMBDA c : SameGrain(l, c))
        ofLeft(l) ==
            IF partners(l) = <<>> THEN <<[r |-> Some(l), c |-> Null]>>
            ELSE [j \in 1..Len(partners(l)) |->
                    [r |-> Some(l), c |-> Some(partners(l)[j])]]
        alone == SelectSeq(right,
                    LAMBDA c : \A i \in 1..Len(left) : ~ SameGrain(left[i], c))
    IN  Concat([i \in 1..Len(left) |-> ofLeft(left[i])])
            \o [j \in 1..Len(alone) |-> [r |-> Null, c |-> Some(alone[j])]]

(* One row of mart.mart_pnl_gross_margin from one joined pair *)
GrossMarginRow(pair) ==
    LET any   == IF pair.r # Null THEN ValueOf(pair.r) ELSE ValueOf(pair.c)
        rev   == IF pair.r = Null THEN 0 ELSE fill_null(ValueOf(pair.r).net_revenue_krw, 0)
        cogs  == IF pair.c = Null THEN 0 ELSE fill_null(ValueOf(pair.c).cogs_krw, 0)
        rflag == IF pair.r = Null THEN Null ELSE ValueOf(pair.r).coverage_flag
        cflag == IF pair.c = Null THEN Null ELSE ValueOf(pair.c).coverage_flag
    IN  [period           |-> any.period,
         item_id          |-> any.item_id,
         channel_store_id |-> any.channel_store_id,
         country          |-> any.country,
         net_revenue_krw  |-> rev,
         cogs_krw         |-> cogs,
         gross_margin_krw |-> rev - cogs,
         coverage_flag    |-> IF FlagIsActual(rflag) /\ FlagIsActual(cflag)
                              THEN Actual ELSE Partial]

build_mart_pnl_gross_margin(revenue, cogs) ==
    LET pairs == FullOuterJoin(revenue, cogs)
    IN  [i \in 1..Len(pairs) |-> GrossMarginRow(pairs[i])]

(* build_mart_pnl_variable_cost: mart.mart_charge_allocated grouped by     *)
(* period, item, channel store and charge type                             *)
build_mart_pnl_variable_cost(allocated) ==
    LET groups == RowsOf({[period |-> allocated[i].period,
                           item_id |-> allocated[i].item_id,
                           channel_store_id |-> allocated[i].channel_store_id,
                           charge_type |-> allocated[i].charge_type] :
                              i \in 1..Len(allocated)})
        members(g) == SelectSeq(allocated, LAMBDA a :
                          /\ a.period = g.period
                          /\ a.item_id = g.item_id
                          /\ a.channel_store_id = g.channel_store_id
                          /\ a.charge_type = g.charge_type)
    IN  [i \in 1..Len(groups) |->
            [period           |-> groups[i].period,
             item_id          |-> groups[i].item_id,
             channel_store_id |-> fill_null(groups[i].channel_store_id, "ALL"),
             country          |-> "KR",
             charge_type      |-> groups[i].charge_type,
             allocated_amount_krw |->
                 SumNullable([j \in 1..Len(members(groups[i])) |->
                                 members(groups[i])[j].allocated_amount_krw]),
             coverage_flag    |-> Actual]]

(* The subquery vc of the contribution query: total_vc of one grain, as a  *)
(* sequence of at most one joined row                                      *)
VariableCostOf(variable_cost, gm) ==
    LET rows == SelectSeq(variable_cost, LAMBDA v : SameGrain(gm, v))
    IN  IF rows = <<>> THEN <<>>
        ELSE <<[total_vc |-> SumNullable([j \in 1..Len(rows) |->
                                            rows[j].allocated_amount_krw])]>>

(* One row of mart.mart_pnl_contribution: gm LEFT JOIN vc *)
ContributionRow(gm, variable_cost) ==
    LET vc       == VariableCostOf(variable_cost, gm)
        total_vc == IF vc = <<>> THEN Null ELSE vc[1].total_vc
    IN  [period           |-> gm.period,
         item_id          |-> gm.item_id,
         channel_store_id |-> gm.channel_store_id,
         country          |-> gm.country,
         gross_margin_krw |-> gm.gross_margin_krw,
         total_variable_cost_krw |-> fill_null(total_vc, 0),
         contribution_krw |-> gm.gross_margin_krw - fill_null(total_vc, 0),
         coverage_flag    |->
             IF /\ FlagIsActual(gm.coverage_flag)
                /\ (total_vc # Null \/ FlagIsActual(gm.coverage_flag))
             THEN Some(fill_null(gm.coverage_flag, "PARTIAL"))
             ELSE Partial]

build_mart_pnl_contribution(gross_margin, variable_cost) ==
    [i \in 1..Len(gross_margin) |-> ContributionRow(gross_margin[i], variable_cost)]

build_mart_pnl_operating_profit(contribution) ==
    [i \in 1..Len(contribution) |->
        [period               |-> contribution[i].period,
         item_id              |-> contribution[i].item_id,
         channel_store_id     |-> contribution[i].channel_store_id,
         country              |-> contribution[i].country,
         contribution_krw     |-> contribution[i].contribution_krw,
         fixed_cost_krw       |-> 0,
         operating_profit_krw |-> contribution[i].contribution_krw,
         coverage_flag        |-> Some(fill_null(contribution[i].coverage_flag,
                                                 "PARTIAL"))]]

(* One query of metrics: SELECT period, SUM(column) ... GROUP BY period    *)
(* over the column as a sequence of (period, amt), each row with           *)
(* amount_krw = float(amt) if amt else 0.0                                 *)
MetricRows(column, metric_order) ==
    LET of(p) == SelectSeq(column, LAMBDA t : t.period = p)
    IN  {[period       |-> p,
          metric_order |-> metric_order,
          amount_krw   |-> fill_null(SumNullable(
                               [j \in 1..Len(of(p)) |-> of(p)[j].amt]), 0)] :
            p \in {column[i].period : i \in 1..Len(column)}}

(* build_mart_pnl_waterfall_summary: the six period sums of the tables as  *)
(* they stand when it runs                                                 *)
build_mart_pnl_waterfall_summary(tables) ==
    LET column(table, amt(_)) ==
            [i \in 1..Len(table) |->
                [period |-> table[i].period, amt |-> amt(table[i])]]
    IN  MetricRows(column(tables.revenue,
                          LAMBDA t : t.net_revenue_krw), 1)
        \cup MetricRows(column(tables.cogs, LAMBDA t : t.cogs_krw), 2)
        \cup MetricRows(column(tables.gross_margin,
                               LAMBDA t : Some(t.gross_margin_krw)), 3)
        \cup MetricRows(column(tables.variable_cost,
                               LAMBDA t : t.allocated_amount_krw), 4)
        \cup MetricRows(column(tables.contribution,
                               LAMBDA t : Some(t.contribution_krw)), 5)
        \cup MetricRows(column(tables.operating_profit,
                               LAMBDA t : Some(t.operating_profit_krw)), 6)

NoMarts == [revenue |-> <<>>, cogs |-> <<>>, gross_margin |-> <<>>,
            variable_cost |-> <<>>, contribution |-> <<>>,
            operating_profit |-> <<>>, waterfall_summary |-> {}]

(* The tables build_all_pnl_marts leaves behind, each stage built from the *)
(* stages before it                                                        *)
PnlMarts(settlementRows, fx, ships, rets, costs, allocated) ==
    LET revenue       == build_mart_pnl_revenue(settlementRows, fx)
        cogs          == build_mart_pnl_cogs(ships, rets, costs)
        gross_margin  == build_mart_pnl_gross_margin(revenue, cogs)
        variable_cost == build_mart_pnl_variable_cost(allocated)
        contribution  == build_mart_pnl_contribution(gross_margin, variable_cost)
        operating_profit == build_mart_pnl_operating_profit(contribution)
        tables == [revenue          |-> revenue,
                   cogs             |-> cogs,
                   gross_margin     |-> gross_margin,
                   variable_cost    |-> variable_cost,
                   contribution     |-> contribution,
                   operating_profit |-> operating_profit]
    IN  [revenue           |-> revenue,
         cogs              |-> cogs,
         gross_margin      |-> gross_margin,
         variable_cost     |-> variable_cost,
         contribution      |-> contribution,
         operating_profit  |-> operating_profit,
         waterfall_summary |-> build_mart_pnl_waterfall_summary(tables)]

(* The stages of build_all_pnl_marts that write a grain table, in the      *)
(* order of its calls                                                      *)
PnlStages == <<"revenue", "cogs", "gross_margin", "variable_cost",
               "contribution", "operating_profit">>

(* Whether the statement that raises, the SELECT that computes the rows of *)
(* a stage or the INSERT that writes them, is inside the try block of its stage: all of      *)
(* gross margin, variable cost, contribution and operating profit is; of   *)
(* revenue and COGS only the SELECT is, the INSERT follows the block       *)
IsCaught(stage, site) ==
    stage \notin {"revenue", "cogs"} \/ site = "select"

(* The tables a run of build_all_pnl_marts leaves behind when one          *)
(* statement of stage raises. The stage's table stays as its DELETE left   *)
(* it. A caught exception is logged and the later stages run on that empty *)
(* table; an exception that is not caught leaves build_all_pnl_marts, and  *)
(* the tables of the later stages stay as the run found them.              *)
PnlMartsRaising(found, settlementRows, fx, ships, rets, costs, allocated, stage, site) ==
    LET k       == CHOOSE i \in 1..Len(PnlStages) : PnlStages[i] = stage
        aborted == ~IsCaught(stage, site)
        left(i, rows) == IF i < k THEN rows
                         ELSE IF i = k THEN <<>>
                         ELSE IF aborted THEN found[PnlStages[i]]
                         ELSE rows
        revenue       == left(1, build_mart_pnl_revenue(settlementRows, fx))
        cogs          == left(2, build_mart_pnl_cogs(ships, rets, costs))
        gross_margin  == left(3, build_mart_pnl_gross_margin(revenue, cogs))
        variable_cost == left(4, build_mart_pnl_variable_cost(allocated))
        contribution  == left(5, build_mart_pnl_contribution(gross_margin,
                                                             variable_cost))
        operating_profit ==
            left(6, build_mart_pnl_operating_profit(contribution))
        tables == [revenue          |-> revenue,
                   cogs             |-> cogs,
                   gross_margin     |-> gross_margin,
                   variable_cost    |-> variable_cost,
                   contribution     |-> contribution,
                   operating_profit |-> operating_profit]
    IN  [revenue           |-> revenue,
         cogs              |-> cogs,
         gross_margin      |-> gross_margin,
         variable_cost     |-> variable_cost,
         contribution      |-> contribution,
         operating_profit  |-> operating_profit,
         waterfall_summary |->
             IF aborted THEN found.waterfall_summary
             ELSE build_mart_pnl_waterfall_summary(tables)]

(* Phase 3 on its own: allocate_all_charges *)
allocate_all ==
    /\ mart' = allocate_all_charges(charges, shipments, exchangeRate)
    /\ UNCHANGED <<charges, shipments, fileLog, allocVars, lockVars, opsVars, pnlVars, covVars, histVars>>

(* Phase 4 on its own: build_all_pnl_marts *)
build_all_pnl_marts ==
    /\ pnl' = PnlMarts(settlement, exchangeRate, shipments, returns,
                       costStructure, mart)
    /\ UNCHANGED <<settlement, exchangeRate, costStructure, returns,
                   allocVars, lockVars, dataVars, opsVars, covVars, histVars>>

(* build_all_pnl_marts with one statement of one stage raising. A stage   *)
(* reaches its INSERT only with rows to write.                             *)
build_all_pnl_marts_raise(stage, site) ==
    /\ site = "insert" =>
          PnlMarts(settlement, exchangeRate, shipments, returns,
                   costStructure, mart)[stage] # <<>>
    /\ pnl' = PnlMartsRaising(pnl, settlement, exchangeRate, shipments,
                              returns, costStructure, mart, stage, site)
    /\ UNCHANGED <<settlement, exchangeRate, costStructure, returns,
                   allocVars, lockVars, dataVars, opsVars, covVars, histVars>>

----------------------------------------------------------------------------
(* coverage.py, and config.py: is_domain_required *)

(* The keys of DOMAIN_QUERIES *)
QueriedDomains ==
    {"fx_rate", "revenue_settlement", "logistics_transport", "customs",
     "3pl_billing", "cost_structure"}

(* DOMAIN_QUERIES[domain]["min_rows"] *)
min_rows(domain) == 1

(* The IN lists of the charge queries. FREIGHT and PARCEL are this model's  *)
(* names for FREIGHT_INTL_SEA and LAST_MILE_PARCEL.                         *)
DomainChargeTypes(domain) ==
    CASE domain = "logistics_transport" -> {"FREIGHT", "PARCEL"}
      [] domain = "customs" -> {"CUSTOMS_DUTY", "CUSTOMS_VAT", "BROKER_FEE"}
      [] domain = "3pl_billing" -> {"3PL_STORAGE_FEE", "3PL_PICK_PACK_FEE",
                                    "3PL_HANDLING_FEE",
                                    "3PL_RETURN_PROCESSING_FEE", "DISPOSAL_FEE"}
      [] OTHER -> {}

(* SELECT period, COUNT( * ) ... GROUP BY period, as the dict period -> cnt *)
GroupByPeriod(rows) ==
    [p \in {r.period : r \in rows} |-> Cardinality({r \in rows : r.period = p})]

(* DOMAIN_QUERIES[domain]["query"] fetched into domain_periods. The query   *)
(* of cost_structure has no GROUP BY: one row, keyed 'ALL', on any table.   *)
DomainPeriods(domain, chargeRows, settlementRows, fx, costs) ==
    CASE domain = "fx_rate" -> GroupByPeriod(fx)
      [] domain = "revenue_settlement" -> GroupByPeriod(settlementRows)
      [] domain = "cost_structure" -> [p \in {"ALL"} |-> Cardinality(costs)]
      [] OTHER -> GroupByPeriod({c \in chargeRows :
                                   c.charge_type \in DomainChargeTypes(domain)})

(* domain_periods.get(period, 0) *)
domain_periods_get(domain_periods, period) ==
    IF period \in DOMAIN domain_periods THEN domain_periods[period] ELSE 0

(* The periods of fact_shipment, fact_charge_actual and fact_settlement    *)
(* (fact_order holds no rows here), {"ALL"} when there is none             *)
KnownPeriods(chargeRows, ships, settlementRows) ==
    LET periods == {r.period : r \in ships} \cup {r.period : r \in chargeRows}
                     \cup {r.period : r \in settlementRows}
    IN  IF periods = {} THEN {"ALL"} ELSE periods

(* AppConfig.is_domain_required: a domain's entry in "domains" is its      *)
(* requirement, Null when the entry has no "requirement" key               *)
is_domain_required(domain, is_closed) ==
    LET domains == coveragePolicy.domains
        close_enforce == coveragePolicy.close_period_enforcement
    IN  IF is_closed /\ domain \in DOMAIN close_enforce
        THEN close_enforce[domain] = "REQUIRED"
        ELSE /\ domain \in DOMAIN domains
             /\ fill_null(domains[domain], "OPTIONAL") = "REQUIRED"

(* One pass of the inner loop of compute_coverage *)
CoverageRow(domain, period, cnt) ==
    LET is_closed == is_period_closed(period)
        covered == cnt >= min_rows(domain)
        is_required == is_domain_required(domain, is_closed)
    IN  [period |-> period,
         domain |-> domain,
         coverage_rate |-> IF covered THEN 1 ELSE 0,
         included_rows |-> cnt,
         missing_rows |-> IF covered THEN 0 ELSE min_rows(domain) - cnt,
         severity |-> IF ~covered /\ is_required THEN "CRITICAL"
                      ELSE IF ~covered THEN "INFO"
                      ELSE "OK",
         is_closed_period |-> is_closed]

(* The rows compute_coverage writes: configured domains that have a query, *)
(* times the known periods                                                 *)
CoverageRows(chargeRows, ships, settlementRows, fx, costs) ==
    LET configured == (DOMAIN coveragePolicy.domains) \cap QueriedDomains
        periods == KnownPeriods(chargeRows, ships, settlementRows)
    IN  {CoverageRow(x[1], x[2],
             domain_periods_get(
                 DomainPeriods(x[1], chargeRows, settlementRows, fx, costs),
                 x[2])) : x \in configured \X periods}

(* Phase 7 on its own: DELETE, then INSERT the rows *)
compute_coverage ==
    /\ coverage' = CoverageRows(charges, shipments, settlement, exchangeRate,
                                costStructure)
    /\ UNCHANGED <<coveragePolicy, errors,
                   allocVars, lockVars, dataVars, opsVars, pnlVars,
                   histVars>>

(* The list enforce_closed_period_coverage returns, one entry per message  *)
CloseErrors(period) ==
    LET close_enforcement == coveragePolicy.close_period_enforcement
        cnt(d) == domain_periods_get(
                      DomainPeriods(d, charges, settlement, exchangeRate,
                                    costStructure), period)
    IN  {[domain |-> d, period |-> period, found |-> cnt(d),
          need |-> min_rows(d)] :
            d \in {e \in (DOMAIN close_enforcement) \cap QueriedDomains :
                     /\ close_enforcement[e] = "REQUIRED"
                     /\ cnt(e) < min_rows(e)}}

enforce_closed_period_coverage(period) ==
    /\ errors' = Some([period |-> period, errors |-> CloseErrors(period)])
    /\ UNCHANGED <<coveragePolicy, coverage,
                   allocVars, lockVars, dataVars, opsVars, pnlVars,
                   histVars>>

----------------------------------------------------------------------------
(* run.py: run_pipeline *)

(* Phase 1 and the UPDATE of file_count *)
run_ingest(r, inboxes) ==
    /\ pc[r] = "ingest"
    /\ \E inbox \in inboxes :
         LET st == ingest_all([charges |-> charges, shipments |-> shipments,
                               fileLog |-> fileLog], inbox, bid[r], dry[r])
         IN  /\ charges' = st.charges
             /\ shipments' = st.shipments
             /\ fileLog' = st.fileLog
             /\ batchLog' = UpdateBatch(batchLog, bid[r], [file_count |-> Len(inbox)])
             /\ loaded' = IF dry[r] THEN loaded
                          ELSE loaded \cup {e.file_hash : e \in
                                   {x \in st.fileLog \ fileLog : x.status = "success"}}
    /\ pc' = [pc EXCEPT ![r] = "marts"]
    /\ UNCHANGED <<lock, bid, nextId, err, dry, started, mart, allocVars, opsVars,
                   pnlVars, covVars>>

(* Phases 2 to 7, none raising: the allocated-charge mart, the P&L marts   *)
(* and the coverage mart are rebuilt                                       *)
run_marts(r) ==
    /\ pc[r] = "marts"
    /\ mart' = allocate_all_charges(charges, shipments, exchangeRate)
    /\ pnl' = PnlMarts(settlement, exchangeRate, shipments, returns,
                       costStructure, mart')
    /\ coverage' = CoverageRows(charges, shipments, settlement, exchangeRate,
                                costStructure)
    /\ pc' = [pc EXCEPT ![r] = "rel_lock"]
    /\ UNCHANGED <<lock, batchLog, bid, nextId, err, dry, started,
                   charges, shipments, fileLog, allocVars, opsVars,
                   settlement, exchangeRate, costStructure, returns,
                   coveragePolicy, errors, histVars>>

(* Phases 2 to 7, one of them raising: before phase 3 has written, after  *)
(* it, or after phase 4 has written as well. Phase 7 writes last.          *)
run_marts_raise(r) ==
    /\ pc[r] = "marts"
    /\ \E m \in Messages :
         err' = [err EXCEPT ![r] = [kind |-> "Exception", msg |-> m]]
    /\ \E written \in {"nothing", "allocation", "pnl"} :
         /\ mart' = IF written # "nothing"
                    THEN allocate_all_charges(charges, shipments, exchangeRate)
                    ELSE mart
         /\ pnl' = IF written = "pnl"
                   THEN PnlMarts(settlement, exchangeRate, shipments, returns,
                                 costStructure, mart')
                   ELSE pnl
    /\ pc' = [pc EXCEPT ![r] = "rel_lock"]
    /\ UNCHANGED <<lock, batchLog, bid, nextId, dry, started,
                   charges, shipments, fileLog, allocVars, opsVars,
                   settlement, exchangeRate, costStructure, returns, covVars, histVars>>

(* release_lock, statement 1: UPDATE the lock row *)
ReleaseSkipped(l) == l
ReleasedLock(l) == Unlocked

release_lock_lock(r) ==
    /\ pc[r] = "rel_lock"
    /\ lock' = ReleasedLock(lock)
    /\ pc' = [pc EXCEPT ![r] = "rel_log"]
    /\ UNCHANGED <<batchLog, bid, nextId, err, dry, started,
                   allocVars, dataVars, opsVars, pnlVars, covVars, histVars>>

(* release_lock, statement 2: UPDATE the batch row; then return or re-raise *)
FinalStatus(e) == IF e = NoErr THEN "success" ELSE "failed"
FinalMessage(e) == IF e = NoErr THEN Null ELSE Some(e.msg)

release_lock_log(r) ==
    /\ pc[r] = "rel_log"
    /\ batchLog' = UpdateBatch(batchLog, bid[r],
                      [status |-> FinalStatus(err[r]),
                       error_msg |-> FinalMessage(err[r])])
    /\ pc' = [pc EXCEPT ![r] = IF err[r] = NoErr THEN "returned" ELSE "raised"]
    /\ dry' = [dry EXCEPT ![r] = FALSE]
    /\ UNCHANGED <<lock, bid, nextId, err, started,
                   allocVars, dataVars, opsVars, pnlVars, covVars, histVars>>

(* The process is killed: nothing is released, its locals are gone *)
Crash(r) ==
    /\ pc[r] \in InFlight
    /\ pc' = [pc EXCEPT ![r] = "crashed"]
    /\ bid' = [bid EXCEPT ![r] = 0]
    /\ nextId' = [nextId EXCEPT ![r] = 0]
    /\ err' = [err EXCEPT ![r] = NoErr]
    /\ dry' = [dry EXCEPT ![r] = FALSE]
    /\ UNCHANGED <<lock, batchLog, started, allocVars, dataVars, opsVars, pnlVars, covVars, histVars>>

(* unlock_batch: run.py --unlock *)
unlock_batch ==
    /\ lock' = Unlocked
    /\ UNCHANGED <<batchLog, pc, bid, nextId, err, dry, started,
                   allocVars, dataVars, opsVars, pnlVars, covVars, histVars>>

(* The same query with ORDER BY batch_id ASC *)
FirstBatches(n) ==
    {b \in BatchIds : Cardinality({c \in BatchIds : c < b}) < n}

(* rollback_batches: SELECT batch_id ... ORDER BY batch_id DESC LIMIT n *)
LastBatches(n) ==
    {b \in BatchIds : Cardinality({c \in BatchIds : c > b}) < n}

(* A rollback that leaves mart.mart_charge_allocated as it was *)
StaleMart(chargeRows, ships, fx) == mart

(* "Rebuild all marts": allocate_all_charges on the remaining facts *)
RebuiltMart(chargeRows, ships, fx) ==
    allocate_all_charges(chargeRows, ships, fx)

rollback_batches(n) ==
    /\ LastBatches(n) # {}
    /\ LET batch_ids == LastBatches(n)
           kept(table) == {t \in table : t.load_batch_id \notin batch_ids}
       IN  /\ charges' = kept(charges)
           /\ shipments' = kept(shipments)
           /\ batchLog' = [i \in 1..Len(batchLog) |->
                             IF batchLog[i].batch_id \in batch_ids
                             THEN [batchLog[i] EXCEPT !.status = "rolled_back"]
                             ELSE batchLog[i]]
           /\ settlement' = kept(settlement)
           /\ exchangeRate' = kept(exchangeRate)
           /\ costStructure' = kept(costStructure)
           /\ returns' = kept(returns)
           /\ mart' = RebuiltMart(kept(charges), kept(shipments),
                                   kept(exchangeRate))
           /\ pnl' = PnlMarts(kept(settlement), kept(exchangeRate),
                              kept(shipments), kept(returns),
                              kept(costStructure), mart')
           /\ coverage' = CoverageRows(kept(charges), kept(shipments),
                                       kept(settlement), kept(exchangeRate),
                                       kept(costStructure))
    /\ UNCHANGED <<lock, pc, bid, nextId, err, dry, started, fileLog,
                   allocVars, opsVars, coveragePolicy, errors, histVars>>

----------------------------------------------------------------------------
(* Specifications *)

NoInput == [amount |-> 0, decimals |-> 0, basis_priority |-> <<>>,
            targets |-> [columns |-> {}, rows |-> <<>>]]
NoResult == [status |-> "none", basis |-> <<>>, rows |-> <<>>, allocated |-> <<>>]

(* config/policies/coverage_policy.yaml as loaded: per domain its          *)
(* requirement, and the requirements that hold once a period is closed.    *)
(* FX, settlements and costs are needed to close a period.                 *)
ClosePolicy ==
    [domains |->
        [d \in {"fx_rate", "revenue_settlement", "logistics_transport",
                "cost_structure"} |->
            IF d = "logistics_transport" THEN Some("OPTIONAL")
            ELSE Some("REQUIRED")],
     close_period_enforcement |->
        [d \in {"fx_rate", "revenue_settlement", "logistics_transport",
                "cost_structure"} |-> "REQUIRED"]]

InitControl ==
    /\ lock = Unlocked
    /\ batchLog = <<>>
    /\ pc = [r \in Runs |-> "idle"]
    /\ bid = [r \in Runs |-> 0]
    /\ nextId = [r \in Runs |-> 0]
    /\ err = [r \in Runs |-> NoErr]
    /\ dry = [r \in Runs |-> FALSE]
    /\ started = 0
    /\ fileLog = {}
    /\ periodClose = <<>>
    /\ adjLog = <<>>
    /\ lastCall = [p \in Periods |-> "none"]
    /\ coverage = {}
    /\ errors = Null
    /\ loaded = {}

(* A new database: no facts, empty marts *)
InitFacts ==
    /\ charges = {}
    /\ shipments = {}
    /\ mart = <<>>
    /\ settlement = {}
    /\ exchangeRate = {}
    /\ costStructure = {}
    /\ returns = {}
    /\ pnl = NoMarts
    /\ coveragePolicy = ClosePolicy

InitPipeline == InitControl /\ InitFacts

Init ==
    /\ aIn = NoInput
    /\ aOut = NoResult
    /\ InitPipeline

RunStep(r, inboxes, dryRuns) ==
    \/ Start(r, dryRuns)
    \/ acquire_lock_read(r)
    \/ acquire_lock_update(r)
    \/ acquire_lock_max(r)
    \/ acquire_lock_insert(r)
    \/ run_ingest(r, inboxes)
    \/ run_marts(r)
    \/ run_marts_raise(r)
    \/ release_lock_lock(r)
    \/ release_lock_log(r)

(* No run_pipeline invocation is executing *)
Quiet == \A r \in Runs : pc[r] \in Ended

(* The commands of run.py one at a time: --once and --dry-run over every   *)
(* inbox, a crash while the batch is open, --unlock and --rollback N       *)
Next ==
    \/ \E r \in SoloRuns : RunStep(r, Inboxes, BOOLEAN)
    \/ \E r \in SoloRuns : pc[r] \in LockedSection /\ Crash(r)
    \/ Quiet /\ unlock_batch
    \/ Quiet /\ \E n \in 1..MaxRollback : rollback_batches(n)

Spec == Init /\ [][Next]_vars

(* The same commands on charge files of the closing period, and the period *)
(* ledger's operations between them                                        *)
NextClose ==
    \/ \E r \in SoloRuns : RunStep(r, ChargeInboxes, BOOLEAN)
    \/ \E r \in SoloRuns : pc[r] \in LockedSection /\ Crash(r)
    \/ Quiet /\ unlock_batch
    \/ Quiet /\ \E n \in 1..MaxRollback : rollback_batches(n)
    \/ Quiet /\ \E p \in ClosingPeriods : close_period(p)
    \/ Quiet /\ \E p \in ClosingPeriods : reopen_period(p)
    \/ Quiet /\ \E p \in ClosingPeriods : post_close_adjustment(p, "a")

SpecClose == Init /\ [][NextClose]_vars

(* The operator's period commands alone, over every period *)
NextPeriod ==
    \/ \E p \in Periods : close_period(p)
    \/ \E p \in Periods : reopen_period(p)
    \/ \E p \in Periods : \E v \in {"a", "b"} : post_close_adjustment(p, v)

SpecPeriod == Init /\ [][NextPeriod]_vars

(* Concurrent pipeline runs, interleaved statement by statement *)
NextLock ==
    \/ \E r \in Runs : RunStep(r, EmptyInbox, {FALSE})
    \/ \E r \in Runs : Crash(r)
    \/ unlock_batch
    \/ \E n \in 1..MaxRollback : rollback_batches(n)

SpecLock == Init /\ [][NextLock]_vars

(* One allocate_charge call on bounded arguments *)
BasisValues == {Null, Some(0), Some(1), Some(2)}
WeightValues == {Null, Some(3)}
TargetRows == [key : 1..2, qty : BasisValues \ {Null}, weight : WeightValues]
TargetSeqs == UNION {[1..n -> TargetRows] : n \in 0..MaxTargets}
Priorities == {<<"weight", "qty">>, <<"qty">>, <<"onhand_cbm_days", "weight">>}

InitAlloc ==
    /\ aIn \in [amount : (0 - MaxCredit)..MaxAmount,
                decimals : 0..MaxDecimals,
                basis_priority : Priorities,
                targets : [columns : {{"qty", "weight"}}, rows : TargetSeqs]]
    /\ aOut = NoResult
    /\ InitPipeline

AllocateCall ==
    /\ aOut = NoResult
    /\ aOut' = allocate_charge(aIn.amount, aIn.targets, aIn.basis_priority, aIn.decimals)
    /\ UNCHANGED <<aIn, lockVars, dataVars, opsVars, pnlVars, covVars, histVars>>

NextAlloc == AllocateCall

SpecAlloc == InitAlloc /\ [][NextAlloc]_vars

(* The mart builds on their own, over the facts a database can hold.       *)
(* Amounts here are whole currency units; FX rates are whole numbers.      *)
Settlement(line, period, item, store, currency, gross, net) ==
    [settlement_id |-> "SET1", line_no |-> line, period |-> period,
     item_id |-> item, channel_store_id |-> store, currency |-> currency,
     gross_sales |-> gross, discounts |-> Null, refunds |-> Null,
     net_payout |-> net]
SettlementCatalog ==
    {Settlement(1, "2024-01", "SKU1", "ST1", "KRW", Some(100), Some(90)),
     Settlement(2, "2024-01", "SKU1", "ST1", "USD", Some(10), Some(10)),
     Settlement(3, "2024-02", "SKU2", "UNKNOWN", "USD", Some(5), Null)}

FxCatalog ==
    {[period |-> "2024-01", currency |-> "USD", rate_to_krw |-> 3],
     [period |-> "2024-02", currency |-> "USD", rate_to_krw |-> 2]}

Cost(item, component, effective_from, cost) ==
    [item_id |-> item, cost_component |-> component,
     effective_from |-> effective_from, cost_per_unit_krw |-> cost]
CostCatalog ==
    {Cost("SKU1", "MATERIAL", 1, 5), Cost("SKU1", "LABOR", 1, 2),
     Cost("SKU1", "MATERIAL", 2, 6)}

(* period is STRFTIME(return_date, '%Y-%m') *)
Return(rid, period, item, qty, order) ==
    [return_id |-> rid, period |-> period, item_id |-> item,
     qty_returned |-> qty, channel_order_id |-> order]
ReturnSets ==
    {{}, {Return("R1", "2024-01", "SKU1", 1, Some("O1")),
          Return("R2", "2024-01", "SKU1", 1, Null)}}

ShipmentSets ==
    LET rows == {Tagged(s, 1) : s \in FileCatalog[3].rows}
    IN  {{}} \cup {{s \in rows : s.key <= k} : k \in 1..3}

ChargeSets ==
    LET inv1 == Charge("INV1", 1, "FREIGHT", 30, "KRW", "2024-01", Null)
        inv2 == Charge("INV2", 1, "PARCEL", 20, "USD", "2024-01", Some("WH2"))
        inv3 == Charge("INV1", 1, "PARCEL", 10, "KRW", "2024-01", Null)
    IN  {{Tagged(c, 1) : c \in cs} : cs \in {{}, {inv1}, {inv2}, {inv1, inv2, inv3}}}

InitMarts ==
    /\ aIn = NoInput
    /\ aOut = NoResult
    /\ InitControl
    /\ charges \in ChargeSets
    /\ shipments \in ShipmentSets
    /\ settlement \in SUBSET SettlementCatalog
    /\ exchangeRate \in SUBSET FxCatalog
    /\ costStructure \in SUBSET CostCatalog
    /\ returns \in ReturnSets
    /\ mart = <<>>
    /\ pnl = NoMarts
    /\ coveragePolicy = ClosePolicy

NextMarts ==
    \/ allocate_all
    \/ build_all_pnl_marts

SpecMarts == InitMarts /\ [][NextMarts]_vars

(* build_all_pnl_marts, raising or not, on a database whose P&L tables an  *)
(* earlier run wrote from other settlements and shipments                  *)
InitRebuild ==
    LET settlements ==
            {{}, {Settlement(1, "2024-01", "SKU1", "ST1", "KRW", Some(100),
                             Some(90))},
             {Settlement(3, "2024-02", "SKU2", "UNKNOWN", "USD", Some(5),
                         Null)}}
        shipmentSets == {rows \in ShipmentSets : Cardinality(rows) <= 1}
    IN  /\ aIn = NoInput
        /\ aOut = NoResult
        /\ InitControl
        /\ charges \in {rows \in ChargeSets : Cardinality(rows) <= 1}
        /\ shipments \in shipmentSets
        /\ settlement \in settlements
        /\ exchangeRate = FxCatalog
        /\ costStructure = CostCatalog
        /\ returns = {}
        /\ mart = <<>>
        /\ \E settlementRows \in settlements : \E ships \in shipmentSets :
              pnl = PnlMarts(settlementRows, exchangeRate, ships, returns,
                             costStructure, mart)
        /\ coveragePolicy = ClosePolicy

NextRebuild ==
    \/ allocate_all
    \/ build_all_pnl_marts
    \/ \E i \in 1..Len(PnlStages) : \E site \in {"select", "insert"} :
          build_all_pnl_marts_raise(PnlStages[i], site)

SpecRebuild == InitRebuild /\ [][NextRebuild]_vars

(* The COGS as-of join and the stages after it, over sales and transfer   *)
(* shipments of two items, two stores and two periods, and cost versions   *)
(* with one or two components.                                             *)
SettlementSets ==
    {{}} \cup {{r \in SettlementCatalog : r.line_no <= k} : k \in {1, 3}}

CogsShipments ==
    {Shipment("S1", 1, "WH1", 1, Null, "2024-01", "SKU1", Some("ST1"), Some("O1")),
     Shipment("S2", 2, "WH1", 2, Null, "2024-01", "SKU1", Some("ST2"), Some("O2")),
     Shipment("S3", 3, "WH1", 1, Null, "2024-02", "SKU1", Some("ST1"), Some("O3")),
     Shipment("S4", 4, "WH1", 1, Null, "2024-01", "SKU2", Null, Some("O4")),
     Shipment("S5", 5, "WH1", 3, Null, "2024-01", "SKU1", Some("ST1"), Some("O5")),
     Shipment("S6", 6, "WH1", 1, Null, "2024-01", "SKU1", Some("ST3"), Null)}
CogsShipmentSets == {{Tagged(r, 1) : r \in rs} : rs \in SUBSET CogsShipments}

CogsCostCatalog == CostCatalog \cup {Cost("SKU2", "MATERIAL", 2, 4)}

InitCogs ==
    /\ aIn = NoInput
    /\ aOut = NoResult
    /\ InitControl
    /\ charges = {}
    /\ shipments \in CogsShipmentSets
    /\ settlement \in SettlementSets
    /\ exchangeRate = FxCatalog
    /\ costStructure \in SUBSET CogsCostCatalog
    /\ returns \in ReturnSets
    /\ mart = <<>>
    /\ pnl = NoMarts
    /\ coveragePolicy = ClosePolicy

NextCogs == build_all_pnl_marts

SpecCogs == InitCogs /\ [][NextCogs]_vars

(* The coverage engine on its own, over facts, policies and ledger states. *)
(* OpenPolicy: a domain entry without a "requirement" key, a domain that   *)
(* is REQUIRED only while the period is open, one that close enforcement   *)
(* does not list. ChargePolicy: charge domains only, nothing enforced at   *)
(* close.                                                                  *)
OpenPolicy ==
    [domains |->
        [d \in {"fx_rate", "revenue_settlement", "customs"} |->
            CASE d = "fx_rate" -> Null
              [] d = "revenue_settlement" -> Some("REQUIRED")
              [] OTHER -> Some("OPTIONAL")],
     close_period_enforcement |->
        [d \in {"fx_rate", "revenue_settlement"} |->
            IF d = "fx_rate" THEN "REQUIRED" ELSE "OPTIONAL"]]
ChargePolicy ==
    [domains |->
        [d \in {"logistics_transport", "3pl_billing"} |-> Some("REQUIRED")],
     close_period_enforcement |-> <<>>]
PolicySet == {ClosePolicy, OpenPolicy, ChargePolicy}

InitCoverage ==
    /\ aIn = NoInput
    /\ aOut = NoResult
    /\ InitControl
    /\ charges \in ChargeSets
    /\ shipments \in ShipmentSets
    /\ settlement \in SettlementSets
    /\ exchangeRate \in SUBSET FxCatalog
    /\ costStructure \in {{}, CostCatalog}
    /\ returns = {}
    /\ mart = <<>>
    /\ pnl = NoMarts
    /\ coveragePolicy \in PolicySet

NextCoverage ==
    \/ compute_coverage
    \/ \E p \in Periods : enforce_closed_period_coverage(p)
    \/ \E p \in ClosingPeriods : close_period(p)
    \/ \E p \in ClosingPeriods : reopen_period(p)

SpecCoverage == InitCoverage /\ [][NextCoverage]_vars

----------------------------------------------------------------------------
(* Properties *)

(* C1: conservation.  Every allocate_charge call with at least one target  *)
(* and a resolvable basis returns allocated amounts whose units of         *)
(* 10^-decimals sum to round(amount * 10^decimals).                        *)
C1_Conservation ==
    aOut.status = "ok" =>
        SumSeq(aOut.allocated)
            = PyRound(Rat(aIn.amount * Pow10(aIn.decimals), Pow10(AmtScale)))

(* A call of two targets where 1.5 rounds to 2 units and both units are    *)
(* handed out by the remainder pass                                        *)
C1_Witness ==
    /\ aOut.status = "ok"
    /\ aIn.amount = 15
    /\ aIn.decimals = 0
    /\ aOut.allocated = <<1, 1>>

(* C2: mutual exclusion of pipeline runs.  In every interleaving of the    *)
(* statements of concurrent acquire_lock calls, at most one run is between *)
(* its successful acquire_lock and its release_lock.                       *)
C2_MutualExclusion ==
    Cardinality({r \in Runs : pc[r] \in LockedSection}) <= 1

(* C3: failure semantics.  A run that acquired the lock and leaves         *)
(* run_pipeline by returning or by re-raising a phase's exception has      *)
(* gone through release_lock: at that exit the lock row is UNLOCKED and    *)
(* the run's batch row is 'success' (return) or 'failed' with the          *)
(* exception's message (raise); no run that has returned or raised has a   *)
(* 'running' batch row.                                                    *)
BatchRow(log, id) == log[CHOOSE i \in 1..Len(log) : log[i].batch_id = id]

C3_FailureSemantics ==
    [][\A r \in Runs :
        /\ (pc[r] \in LockedSection \cup {"rel_log"} /\ pc'[r] # pc[r])
              => pc'[r] \in LockedSection \cup {"rel_log", "returned", "raised", "crashed"}
        /\ (pc'[r] \in {"returned", "raised"} /\ pc[r] # pc'[r]) =>
              /\ lock' = Unlocked
              /\ BatchRow(batchLog', bid'[r]).status
                    = (IF pc'[r] = "returned" THEN "success" ELSE "failed")
              /\ pc'[r] = "raised" =>
                    /\ err'[r].kind = "Exception"
                    /\ BatchRow(batchLog', bid'[r]).error_msg = Some(err'[r].msg)
        /\ pc'[r] \in {"returned", "raised"} =>
              BatchRow(batchLog', bid'[r]).status # "running"
      ]_vars

(* A run has re-raised: lock row unlocked, batch row failed with the message *)
C3_Witness ==
    \E r \in Runs :
        /\ pc[r] = "raised"
        /\ lock = Unlocked
        /\ BatchRow(batchLog, bid[r]).status = "failed"
        /\ BatchRow(batchLog, bid[r]).error_msg = Some("pnl build failed")

(* C4: while the lock row is LOCKED, an acquire_lock call fails at its     *)
(* first statement with an error naming the holder's pid and changes       *)
(* neither the lock row nor the batch log; the lock row goes from LOCKED   *)
(* to UNLOCKED only by a run's release_lock or by unlock_batch.            *)
C4_LockedFailsFast ==
    [][/\ \A r \in Runs :
            (pc[r] = "acq_read" /\ lock.locked /\ pc'[r] \notin {pc[r], "crashed"}) =>
                /\ pc'[r] = "acq_failed"
                /\ err'[r] = [kind |-> "LockHeld", pid |-> lock.pid]
                /\ lock' = lock
                /\ batchLog' = batchLog
       /\ (lock.locked /\ ~lock'.locked) =>
            \/ \E r \in Runs : pc[r] = "rel_lock" /\ pc'[r] = "rel_log"
            \/ unlock_batch
      ]_vars

(* The holder crashed, the lock is stuck, another run was refused with its pid *)
C4_Witness ==
    \E r, q \in Runs :
        /\ pc[q] = "crashed"
        /\ lock = [locked |-> TRUE, pid |-> Some(q)]
        /\ pc[r] = "acq_failed"
        /\ err[r] = [kind |-> "LockHeld", pid |-> Some(q)]

(* C5: batch ids are unique and increasing.  No two batch-log rows share   *)
(* an id, no issued id ever leaves the log, and every successful           *)
(* acquire_lock returns an id greater than every id issued before, over    *)
(* runs that succeed, fail or crash, rollbacks and unlocks.                *)
C5_BatchIdMonotone ==
    [][/\ \A i, j \in 1..Len(batchLog') :
            i # j => batchLog'[i].batch_id # batchLog'[j].batch_id
       /\ BatchIds \subseteq {batchLog'[i].batch_id : i \in 1..Len(batchLog')}
       /\ \A r \in Runs :
            (pc[r] = "acq_insert" /\ pc'[r] = "ingest") =>
                /\ bid'[r] \notin BatchIds
                /\ \A b \in BatchIds : bid'[r] > b
      ]_vars

(* A second batch was issued after the first was rolled back *)
C5_Witness ==
    /\ Len(batchLog) = 2
    /\ batchLog[1].status = "rolled_back"
    /\ \E r \in Runs : bid[r] = 2 /\ pc[r] = "ingest"

(* C6: closed-period rejection.  While a period is closed, the ingestion   *)
(* phase of a pipeline run leaves the charge rows of that period unchanged *)
(* (the run being refused with the closed-period error).                   *)
C6_ClosedPeriodRejectsIngestion ==
    [][\A r \in Runs : \A p \in Periods :
        (pc[r] = "ingest" /\ pc'[r] = "marts" /\ check_period_for_ingestion(p) = "raise")
            => {c \in charges' : c.period = p} = {c \in charges : c.period = p}
      ]_vars

(* C7: period state machine.  After any sequence of close_period and       *)
(* reopen_period calls, a period is closed exactly when the last call      *)
(* naming it was a close, check_period_for_ingestion raises exactly then,  *)
(* and the ledger holds at most one row per period.                        *)
C7_PeriodStateMachine ==
    \A p \in Periods :
        /\ is_period_closed(p) <=> lastCall[p] = "close"
        /\ check_period_for_ingestion(p) = "raise" <=> lastCall[p] = "close"
        /\ Cardinality(PeriodRows(p)) <= 1

(* One period closed then reopened, the other closed *)
C7_Witness ==
    /\ lastCall["2024-01"] = "reopen"
    /\ lastCall["2024-02"] = "close"
    /\ Len(periodClose) = 2
    /\ ~ is_period_closed("2024-01")
    /\ check_period_for_ingestion("2024-02") = "raise"

(* C8: the adjustment log is append-only.  Every step keeps the existing   *)
(* entries as they are; a step that changes the log is one                 *)
(* post_close_adjustment, which appends exactly one entry with an id above *)
(* every existing id and changes no fact row and no period's state.        *)
C8_AdjustmentLogAppendOnly ==
    [][/\ Len(adjLog') >= Len(adjLog)
       /\ SubSeq(adjLog', 1, Len(adjLog)) = adjLog
       /\ adjLog' # adjLog =>
            /\ Len(adjLog') = Len(adjLog) + 1
            /\ \A a \in AdjustmentIds : adjLog'[Len(adjLog')].adjustment_id > a
            /\ charges' = charges
            /\ shipments' = shipments
            /\ periodClose' = periodClose
      ]_vars

(* Two adjustments logged against a closed period that has fact rows *)
C8_Witness ==
    /\ Len(adjLog) = 2
    /\ adjLog[2].adjustment_id = 2
    /\ is_period_closed("2024-01")
    /\ \E c \in charges : c.period = "2024-01"

(* C9: rollback frame.  rollback_batches(n) deletes exactly the charge and *)
(* shipment rows tagged with one of the n highest batch ids, marks exactly *)
(* those batches 'rolled_back', and leaves every other fact row, every     *)
(* other batch row, the lock row, the period ledger and the adjustment log *)
(* unchanged.                                                              *)
MostRecent(n) ==
    {b \in BatchIds : \A S \in SUBSET (BatchIds \ {b}) :
        Cardinality(S) = n => \E c \in S : c < b}

C9_RollbackFrame ==
    [][\A n \in 1..MaxRollback :
        (pc' = pc /\ rollback_batches(n)) =>
            /\ charges' = {c \in charges : c.load_batch_id \notin MostRecent(n)}
            /\ shipments' = {t \in shipments : t.load_batch_id \notin MostRecent(n)}
            /\ Len(batchLog') = Len(batchLog)
            /\ \A i \in 1..Len(batchLog) :
                 batchLog'[i] =
                    IF batchLog[i].batch_id \in MostRecent(n)
                    THEN [batchLog[i] EXCEPT !.status = "rolled_back"]
                    ELSE batchLog[i]
            /\ lock' = lock
            /\ periodClose' = periodClose
            /\ adjLog' = adjLog
      ]_vars

(* The second batch is rolled back, the first batch's charge rows remain *)
C9_Witness ==
    /\ Len(batchLog) = 2
    /\ batchLog[1].status = "success"
    /\ batchLog[2].status = "rolled_back"
    /\ charges # {}
    /\ \A c \in charges : c.load_batch_id = 1
    /\ shipments = {}
    /\ \E e \in fileLog : e.batch_id = 2 /\ e.status = "success"

(* C10 as stated: after a rollback the allocated-charge mart holds rows    *)
(* only of remaining charges, and for every remaining charge its rows sum  *)
(* to the charge amount at the configured precision.                       *)
MartRowsOf(m, c) ==
    SelectSeq(m, LAMBDA row : row.invoice_no = c.invoice_no
                               /\ row.invoice_line_no = c.invoice_line_no
                               /\ row.charge_type = c.charge_type)
MartSum(m, c) ==
    LET rows == MartRowsOf(m, c)
    IN  SumSeq([i \in 1..Len(rows) |-> rows[i].allocated_amount])
ChargeUnits(c) == PyRound(Rat(c.amount * Pow10(RoundingDecimals), Pow10(AmtScale)))
OnlyRemaining(m, chargeRows) ==
    \A i \in 1..Len(m) : \E c \in chargeRows :
        /\ c.invoice_no = m[i].invoice_no
        /\ c.invoice_line_no = m[i].invoice_line_no
        /\ c.charge_type = m[i].charge_type

C11_FactsMutatedOnlyUnderLock ==
    [][(charges' # charges \/ shipments' # shipments) =>
          \E r \in Runs :
              /\ pc[r] \in LockedSection
              /\ lock = [locked |-> TRUE, pid |-> Some(r)]
      ]_vars

(* C12: monotone coverage lattice.  In Gross Margin, Contribution and      *)
(* Operating Profit a row is flagged ACTUAL exactly when every upstream    *)
(* row it is derived from is flagged ACTUAL, and PARTIAL otherwise; no     *)
(* row of a later stage is ACTUAL for a grain for which an earlier stage   *)
(* holds a row that is not ACTUAL; and no P&L row has a null flag.         *)
FlagsOf(rows) == {rows[i].coverage_flag : i \in 1..Len(rows)}

UpstreamFlags(stage, i) ==
    IF stage = "gross_margin"
    THEN LET pair == FullOuterJoin(pnl.revenue, pnl.cogs)[i]
         IN  {ValueOf(x).coverage_flag : x \in {pair.r, pair.c} \ {Null}}
    ELSE IF stage = "contribution"
    THEN {pnl.gross_margin[i].coverage_flag}
            \cup FlagsOf(SelectSeq(pnl.variable_cost,
                            LAMBDA v : SameGrain(pnl.gross_margin[i], v)))
    ELSE {pnl.contribution[i].coverage_flag}

C12_RowRule ==
    \A stage \in {"gross_margin", "contribution", "operating_profit"} :
        \A i \in 1..Len(pnl[stage]) :
            /\ pnl[stage][i].coverage_flag \in {Actual, Partial}
            /\ pnl[stage][i].coverage_flag = Actual
                   <=> UpstreamFlags(stage, i) \subseteq {Actual}

StageEdges ==
    {<<"revenue", "gross_margin">>, <<"cogs", "gross_margin">>,
     <<"gross_margin", "contribution">>, <<"variable_cost", "contribution">>,
     <<"contribution", "operating_profit">>}

C12_GrainRule ==
    \A e \in StageEdges :
        \A i \in 1..Len(pnl[e[1]]) : \A j \in 1..Len(pnl[e[2]]) :
            /\ SameGrain(pnl[e[1]][i], pnl[e[2]][j])
            /\ pnl[e[1]][i].coverage_flag # Actual
            => pnl[e[2]][j].coverage_flag # Actual

C12_NoNullFlag ==
    \A k \in 1..Len(PnlStages) : Null \notin FlagsOf(pnl[PnlStages[k]])

C12_MonotoneCoverageLattice ==
    /\ C12_RowRule
    /\ C12_GrainRule
    /\ C12_NoNullFlag

(* C13: no silent FX defaulting in Revenue.  After a build, the revenue    *)
(* row of a KRW settlement line is ACTUAL with the line's own amounts; the *)
(* row of a foreign-currency line with an FX row for its (period,          *)
(* currency) is ACTUAL with the amounts times that rate; the row of a      *)
(* foreign-currency line without such an FX row is PARTIAL and has null in *)
(* every KRW column, never the amounts at rate 1.0.                        *)
KrwColumns(row) ==
    <<row.gross_sales_krw, row.discounts_krw, row.refunds_krw, row.net_revenue_krw>>
AmountsAt(s, rate) ==
    <<Some(fill_null(s.gross_sales, 0) * rate), Some(fill_null(s.discounts, 0) * rate),
      Some(fill_null(s.refunds, 0) * rate), Some(fill_null(s.net_payout, 0) * rate)>>
FxRowsFor(s) ==
    {x \in exchangeRate : x.period = s.period /\ x.currency = s.currency}

C13_NoSilentFxDefault ==
    pnl.revenue # <<>> =>
        LET lines == RowsOf(settlement)
        IN  /\ Len(pnl.revenue) = Len(lines)
            /\ \A i \in 1..Len(lines) :
                 LET s   == lines[i]
                     row == pnl.revenue[i]
                 IN  IF s.currency = "KRW"
                     THEN /\ row.coverage_flag = Actual
                          /\ KrwColumns(row) = AmountsAt(s, 1)
                     ELSE IF FxRowsFor(s) # {}
                     THEN /\ row.coverage_flag = Actual
                          /\ \A x \in FxRowsFor(s) :
                                KrwColumns(row) = AmountsAt(s, x.rate_to_krw)
                     ELSE /\ row.coverage_flag = Partial
                          /\ KrwColumns(row) = <<Null, Null, Null, Null>>

(* A build over a KRW line, a USD line with its FX row and a USD line      *)
(* without one                                                             *)
C13_Witness ==
    /\ settlement = SettlementCatalog
    /\ exchangeRate = {[period |-> "2024-01", currency |-> "USD", rate_to_krw |-> 3]}
    /\ Len(pnl.revenue) = 3
    /\ \E i, j, k \in 1..3 :
         /\ pnl.revenue[i].net_revenue_krw = Some(90)
         /\ pnl.revenue[j].net_revenue_krw = Some(30)
         /\ pnl.revenue[j].coverage_flag = Actual
         /\ pnl.revenue[k].net_revenue_krw = Null
         /\ pnl.revenue[k].coverage_flag = Partial

(* C14: allocation converts with rate 1.0 only for KRW charges.  A row of  *)
(* the allocated-charge mart for a KRW charge carries its allocated amount *)
(* unchanged; a row for a foreign-currency charge carries the amount times *)
(* the FX rate of its (period, currency), and null when there is no such   *)
(* FX row, never the amount at rate 1.0.                                   *)
C14_AllocationFxNoDefault ==
    \A i \in 1..Len(mart) :
        LET a  == mart[i]
            fx == {x \in exchangeRate : x.period = a.period /\ x.currency = a.currency}
        IN  IF a.currency = "KRW"
            THEN a.allocated_amount_krw = Some(a.allocated_amount)
            ELSE IF fx # {}
            THEN \A x \in fx :
                    a.allocated_amount_krw = Some(a.allocated_amount * x.rate_to_krw)
            ELSE a.allocated_amount_krw = Null

(* C15: determinism under input order.  An allocate_charge call that       *)
(* succeeds gives every target the same allocated amount, remainder units  *)
(* included, as the same call on any reordering of its targets.            *)
TargetAmounts(res) == {<<res.rows[i], res.allocated[i]>> : i \in 1..Len(res.rows)}
TimesGiven(res, pair) ==
    Cardinality({i \in 1..Len(res.rows) : <<res.rows[i], res.allocated[i]>> = pair})
Reordered(targets, p) ==
    [targets EXCEPT !.rows = [i \in 1..Len(targets.rows) |-> targets.rows[p[i]]]]

C15_Determinism ==
    aOut.status = "ok" =>
        \A p \in Permutations(1..Len(aIn.targets.rows)) :
            LET again == allocate_charge(aIn.amount, Reordered(aIn.targets, p),
                                         aIn.basis_priority, aIn.decimals)
            IN  /\ again.status = "ok"
                /\ \A pair \in TargetAmounts(aOut) \cup TargetAmounts(again) :
                      TimesGiven(again, pair) = TimesGiven(aOut, pair)

(* C16: basis resolution.  An allocate_charge call with targets uses the   *)
(* first basis of the priority list for which every target has a non-null  *)
(* value or some target has a non-null, non-zero value, and fails with the *)
(* no-usable-basis error exactly when the list holds no such basis.        *)
RuleAccepts(targets, basis) ==
    /\ basis \in targets.columns
    /\ \/ \A i \in 1..Len(targets.rows) : targets.rows[i][basis] # Null
       \/ \E i \in 1..Len(targets.rows) :
             /\ targets.rows[i][basis] # Null
             /\ ValueOf(targets.rows[i][basis]) # 0
AcceptedPositions(targets, basis_priority) ==
    {k \in 1..Len(basis_priority) : RuleAccepts(targets, basis_priority[k])}
FirstAccepted(targets, basis_priority) ==
    basis_priority[CHOOSE k \in AcceptedPositions(targets, basis_priority) :
                      \A j \in AcceptedPositions(targets, basis_priority) : k <= j]

C16_BasisResolution ==
    aOut.status # "none" /\ Len(aIn.targets.rows) > 0 =>
        IF AcceptedPositions(aIn.targets, aIn.basis_priority) = {}
        THEN aOut.status = "no_basis"
        ELSE /\ aOut.status = "ok"
             /\ aOut.basis = <<FirstAccepted(aIn.targets, aIn.basis_priority)>>

(* C17: zero-sum basis fallback.  When the values of the basis in use sum  *)
(* to zero over the targets, every value being zero included, the call     *)
(* does not fail and splits the amount equally across the targets.         *)
EqualSplit(amount, height, decimals) ==
    LET amt == Rat(amount, Pow10(AmtScale))
    IN  largest_fraction_round([i \in 1..height |-> Rat(amt.n, amt.d * height)],
                               amt, decimals)

C17_ZeroSumFallback ==
    /\ aOut.status # "none"
    /\ Len(aIn.targets.rows) > 0
    /\ AcceptedPositions(aIn.targets, aIn.basis_priority) # {}
    /\ SumSeq([i \in 1..Len(aIn.targets.rows) |->
                 fill_null(aIn.targets.rows[i][FirstAccepted(aIn.targets,
                                                             aIn.basis_priority)], 0)]) = 0
    => /\ aOut.status = "ok"
       /\ aOut.allocated = EqualSplit(aIn.amount, Len(aIn.targets.rows), aIn.decimals)

(* C18: portfolio-level allocation.  After allocate_all_charges, a charge  *)
(* whose basis cannot be resolved has no row in the allocated-charge mart, *)
(* and every other charge has rows for its (invoice_no, invoice_line_no)   *)
(* whose allocated amounts sum to the charge amount at the configured      *)
(* precision, whatever the other charges are.                              *)
Resolves(c, ships) ==
    resolve_basis(get_allocation_basis_priority(c.charge_type),
                  TargetsFor(c, ships)) # <<>>
InvoiceLineRows(m, c) ==
    SelectSeq(m, LAMBDA row : row.invoice_no = c.invoice_no
                               /\ row.invoice_line_no = c.invoice_line_no)
InvoiceLineSum(m, c) ==
    LET rows == InvoiceLineRows(m, c)
    IN  SumSeq([i \in 1..Len(rows) |-> rows[i].allocated_amount])

C18_PortfolioByInvoiceLine ==
    [][allocate_all =>
        \A c \in charges :
            IF Resolves(c, shipments)
            THEN /\ InvoiceLineRows(mart', c) # <<>>
                 /\ InvoiceLineSum(mart', c) = ChargeUnits(c)
            ELSE InvoiceLineRows(mart', c) = <<>>
      ]_vars

(* C18 amended: the same, with the rows of a charge taken by its business  *)
(* key (invoice_no, invoice_line_no, charge_type): two charges of one      *)
(* invoice line with different charge types are allocated separately.      *)
C18_PortfolioByChargeKey ==
    [][allocate_all =>
        \A c \in charges :
            IF Resolves(c, shipments)
            THEN /\ MartRowsOf(mart', c) # <<>>
                 /\ MartSum(mart', c) = ChargeUnits(c)
            ELSE MartRowsOf(mart', c) = <<>>
      ]_vars

(* An allocation that passes over one charge and allocates two others, two *)
(* of the three being of the same invoice line                             *)
C18_Witness ==
    /\ Cardinality(charges) = 3
    /\ \E c \in charges : ~ Resolves(c, shipments) /\ MartRowsOf(mart, c) = <<>>
    /\ \E c, d \in charges :
         /\ c # d
         /\ MartRowsOf(mart, c) # <<>> /\ MartSum(mart, c) = ChargeUnits(c)
         /\ MartRowsOf(mart, d) # <<>> /\ MartSum(mart, d) = ChargeUnits(d)

(* The rows of a domain's source that belong to a period. The cost master  *)
(* is not partitioned by period: its rows count for every period.          *)
SourceRows(domain, period) ==
    CASE domain = "fx_rate" -> {r \in exchangeRate : r.period = period}
      [] domain = "revenue_settlement" -> {r \in settlement : r.period = period}
      [] domain = "cost_structure" -> costStructure
      [] OTHER -> {c \in charges : /\ c.charge_type \in DomainChargeTypes(domain)
                                   /\ c.period = period}

UnderCovered(domain, period) ==
    Cardinality(SourceRows(domain, period)) < min_rows(domain)

(* The periods the fact tables know *)
FactPeriods ==
    {r.period : r \in shipments} \cup {r.period : r \in charges}
        \cup {r.period : r \in settlement}

(* The requirement in force: the close-time one when the period is closed  *)
(* and the policy states one, the open-time one otherwise                  *)
RequiredNow(domain, period) ==
    LET open == coveragePolicy.domains
        close == coveragePolicy.close_period_enforcement
    IN  IF is_period_closed(period) /\ domain \in DOMAIN close
        THEN close[domain] = "REQUIRED"
        ELSE domain \in DOMAIN open /\ open[domain] = Some("REQUIRED")

ExpectedSeverity(domain, period) ==
    IF ~UnderCovered(domain, period) THEN "OK"
    ELSE IF RequiredNow(domain, period) THEN "CRITICAL"
    ELSE "INFO"

CoverageIsCurrent ==
    coverage = CoverageRows(charges, shipments, settlement, exchangeRate,
                            costStructure)

ClassifiedRight(domains) ==
    \A d \in domains : \A p \in FactPeriods :
        LET recs == {c \in coverage : c.domain = d /\ c.period = p}
        IN  /\ Cardinality(recs) = 1
            /\ \A c \in recs : c.severity = ExpectedSeverity(d, p)

(* C19: once compute_coverage has run on the current facts, the coverage   *)
(* mart holds, for every configured domain and every known period, exactly *)
(* one record, whose severity is OK when the domain has at least min_rows  *)
(* rows for the period, CRITICAL when it has fewer and the domain is       *)
(* REQUIRED for the period's open or closed status, INFO when it has fewer *)
(* and the domain is not REQUIRED.                                         *)
C19_CoverageClassification ==
    CoverageIsCurrent => ClassifiedRight(DOMAIN coveragePolicy.domains)

(* The same for the domains whose source is partitioned by period *)
C19_PartitionedDomains ==
    CoverageIsCurrent =>
        ClassifiedRight((DOMAIN coveragePolicy.domains) \ {"cost_structure"})

C19_PartitionedWitness ==
    /\ CoverageIsCurrent
    /\ \E c \in coverage : c.severity = "CRITICAL" /\ c.is_closed_period
    /\ \E c \in coverage : c.severity = "INFO"
    /\ \E c \in coverage : c.severity = "OK"

(* C20: a call of enforce_closed_period_coverage(period) returns exactly   *)
(* one error for each domain that is REQUIRED at close and has fewer than  *)
(* min_rows rows for the period, no error for any other domain, and leaves *)
(* facts, marts, the period-close ledger and the lock as they were.        *)
C20_EnforceClosedPeriodCoverage ==
    [][errors' # errors =>
        LET res == ValueOf(errors')
            close == coveragePolicy.close_period_enforcement
            failing == {d \in DOMAIN close :
                          close[d] = "REQUIRED" /\ UnderCovered(d, res.period)}
        IN  /\ \A d \in failing :
                   Cardinality({e \in res.errors : e.domain = d}) = 1
            /\ \A e \in res.errors : e.domain \in failing
            /\ UNCHANGED <<dataVars, pnlVars, coverage, coveragePolicy,
                           periodClose, adjLog, lock, batchLog>>]_vars

(* The same for the domains whose source is partitioned by period *)
C20_PartitionedDomains ==
    [][errors' # errors =>
        LET res == ValueOf(errors')
            close == coveragePolicy.close_period_enforcement
            failing == {d \in DOMAIN close :
                          close[d] = "REQUIRED" /\ UnderCovered(d, res.period)}
        IN  /\ \A d \in failing \ {"cost_structure"} :
                   Cardinality({e \in res.errors : e.domain = d}) = 1
            /\ \A e \in res.errors :
                   e.domain \in failing \cup {"cost_structure"}
            /\ UNCHANGED <<dataVars, pnlVars, coverage, coveragePolicy,
                           periodClose, adjLog, lock, batchLog>>]_vars

C20_PartitionedWitness ==
    /\ errors # Null
    /\ \E e \in ValueOf(errors).errors : e.domain = "fx_rate"
    /\ \E r \in settlement : r.period = ValueOf(errors).period

(* C21: a period becomes CLOSED only if every domain that is REQUIRED at   *)
(* close has at least min_rows rows for that period.                       *)
C21_CloseGate ==
    [][\A p \in Periods :
          (~is_period_closed(p) /\ is_period_closed(p)') =>
              \A d \in DOMAIN coveragePolicy.close_period_enforcement :
                  coveragePolicy.close_period_enforcement[d] = "REQUIRED"
                      => ~UnderCovered(d, p)]_vars

PnlIsCurrent ==
    pnl = PnlMarts(settlement, exchangeRate, shipments, returns,
                   costStructure, mart)

(* The (period, item_id, channel_store_id) of the sales shipments *)
SalesGrains ==
    {<<s.period, s.item_id, fill_null(s.channel_store_id, "UNKNOWN")>> :
        s \in {x \in shipments : x.channel_order_id # Null}}

CogsRowsAt(g) ==
    {i \in 1..Len(pnl.cogs) :
        <<pnl.cogs[i].period, pnl.cogs[i].item_id,
          pnl.cogs[i].channel_store_id>> = g}

(* The cost rows of an item that are effective by the end of a period, and *)
(* among them the rows of the latest version                               *)
EffectiveCosts(item_id, period) ==
    {c \in costStructure : c.item_id = item_id
                           /\ c.effective_from <= MonthOf(period)}
LatestCosts(item_id, period) ==
    {c \in EffectiveCosts(item_id, period) :
        \A d \in EffectiveCosts(item_id, period) :
            d.effective_from <= c.effective_from}
ComponentSum(rows) ==
    LET seq == RowsOf(rows)
    IN  SumSeq([i \in 1..Len(seq) |-> seq[i].cost_per_unit_krw])

(* C22: once the COGS mart is built, every grain of sales shipments has a  *)
(* COGS row, and each COGS row uses as unit cost the sum over components   *)
(* of the item's cost rows with the latest effective_from not after the    *)
(* period's end; with no cost row effective by then, unit cost and         *)
(* cogs_krw are null and the flag is PARTIAL.                              *)
C22_CogsAsOfSelection ==
    PnlIsCurrent =>
        /\ \A g \in SalesGrains : CogsRowsAt(g) # {}
        /\ \A i \in 1..Len(pnl.cogs) :
              LET row == pnl.cogs[i]
                  latest == LatestCosts(row.item_id, row.period)
              IN  IF latest = {}
                  THEN /\ row.unit_cost_krw = Null
                       /\ row.cogs_krw = Null
                       /\ row.coverage_flag = Partial
                  ELSE /\ row.unit_cost_krw = Some(ComponentSum(latest))
                       /\ row.cogs_krw =
                              Some(row.qty_net * ComponentSum(latest))
                       /\ row.coverage_flag = Actual

(* A row priced by the earlier of two cost versions, two components summed, *)
(* and a row of an item whose only cost starts after the period             *)
C22_Witness ==
    /\ PnlIsCurrent
    /\ \E i \in 1..Len(pnl.cogs) :
          /\ pnl.cogs[i].period = "2024-01"
          /\ Cardinality(LatestCosts(pnl.cogs[i].item_id, "2024-01")) = 2
          /\ \E c \in costStructure : /\ c.item_id = pnl.cogs[i].item_id
                                      /\ c.effective_from > MonthOf("2024-01")
    /\ \E i \in 1..Len(pnl.cogs) :
          /\ pnl.cogs[i].cogs_krw = Null
          /\ \E c \in costStructure : c.item_id = pnl.cogs[i].item_id

(* C23: the COGS mart holds exactly one row per grain of sales shipments,  *)
(* whatever the number of cost components and cost versions, and no row of *)
(* any other grain; the stores of one item and period all keep their row.  *)
C23_CogsGrainStability ==
    PnlIsCurrent =>
        /\ Len(pnl.cogs) = Cardinality(SalesGrains)
        /\ \A g \in SalesGrains : Cardinality(CogsRowsAt(g)) = 1

(* Two stores of one item and period, two shipments in one grain, and an   *)
(* item with two cost versions, one of them with two components            *)
C23_Witness ==
    /\ PnlIsCurrent
    /\ Cardinality(costStructure) >= 3
    /\ \E g, h \in SalesGrains : g[1] = h[1] /\ g[2] = h[2] /\ g[3] # h[3]
    /\ \E s, t \in shipments :
          /\ s # t
          /\ s.channel_order_id # Null /\ t.channel_order_id # Null
          /\ s.period = t.period /\ s.item_id = t.item_id
          /\ s.channel_store_id = t.channel_store_id
    /\ Len(pnl.cogs) >= 2

CoreFacts == <<charges, shipments, returns, settlement, exchangeRate,
               costStructure>>

(* C24: no step of a run_pipeline call with dry_run = true changes a row   *)
(* of a core fact table, so after the run the core fact tables hold what   *)
(* they held before it.                                                    *)
C24_DryRunFrame ==
    [][\A r \in Runs :
          (dry[r] /\ pc[r] \in InFlight /\ pc'[r] # pc[r])
              => UNCHANGED CoreFacts]_vars

(* A dry run that has processed a file and is about to return *)
C24_Witness ==
    \E r \in Runs :
        /\ dry[r]
        /\ pc[r] = "rel_log"
        /\ err[r] = NoErr
        /\ \E e \in fileLog : e.batch_id = bid[r] /\ e.status = "success"

(* C30: a run with dry_run = false skips a file as already loaded only if  *)
(* an earlier run with dry_run = false has upserted the file's rows: a     *)
(* file seen only by dry runs is loaded by the next normal run.            *)
C30_DryRunThenNormalRun ==
    [][\A r \in Runs :
          (pc[r] = "ingest" /\ pc'[r] = "marts" /\ ~dry[r]) =>
              \A e \in fileLog' \ fileLog :
                  e.status = "skipped" => e.file_hash \in loaded]_vars

(* The raw shares of the call in aIn, in the order of the sorted targets *)
RawAmounts ==
    LET basis == aOut.basis[1]
        n     == Len(aOut.rows)
        vals  == [i \in 1..n |-> fill_null(aOut.rows[i][basis], 0)]
        total == SumSeq(vals)
    IN  [i \in 1..n |->
            IF total = 0 THEN Rat(aIn.amount, Pow10(AmtScale) * n)
            ELSE Rat(vals[i] * aIn.amount, total * Pow10(AmtScale))]

FloorUnits(i) == FloorScaled(RawAmounts[i], Pow10(aIn.decimals))
FractionOf(i) == RemainderScaled(RawAmounts[i], Pow10(aIn.decimals))
ExtraUnit == {i \in 1..Len(aOut.allocated) : aOut.allocated[i] = FloorUnits(i) + 1}
Shortfall ==
    PyRound(Rat(aIn.amount * Pow10(aIn.decimals), Pow10(AmtScale)))
        - SumSeq([i \in 1..Len(aOut.rows) |-> FloorUnits(i)])

(* C25: largest-remainder rounding.  Every target receives its floored     *)
(* units or one unit more; as many targets receive the extra unit as the   *)
(* shortfall between the rounded total and the sum of the floors; a target *)
(* with the extra unit has a larger fractional remainder than any target   *)
(* without it, or the same remainder and a lower index.                    *)
C25_LargestRemainder ==
    aOut.status = "ok" =>
        /\ \A i \in 1..Len(aOut.allocated) :
              aOut.allocated[i] \in {FloorUnits(i), FloorUnits(i) + 1}
        /\ Cardinality(ExtraUnit) = Shortfall
        /\ \A i \in ExtraUnit : \A j \in (1..Len(aOut.allocated)) \ ExtraUnit :
              \/ RatGreater(FractionOf(i), FractionOf(j))
              \/ RatEqual(FractionOf(i), FractionOf(j)) /\ i < j

(* The one extra unit goes to the second target, whose remainder is larger *)
C25_Witness ==
    /\ aOut.status = "ok"
    /\ Len(aOut.allocated) = 2
    /\ Shortfall = 1
    /\ ExtraUnit = {2}
    /\ RatGreater(FractionOf(2), FractionOf(1))

GrainsOf(rows) ==
    {<<rows[i].period, rows[i].item_id, rows[i].channel_store_id>> :
        i \in 1..Len(rows)}

(* C26: grain preservation.  Once the P&L marts are built, Gross Margin    *)
(* holds a row for every grain of Revenue and of COGS, and Contribution    *)
(* holds a row for every grain of Gross Margin and of Variable Cost.       *)
C26_GrainPreservation ==
    PnlIsCurrent =>
        /\ GrainsOf(pnl.revenue) \cup GrainsOf(pnl.cogs)
              \subseteq GrainsOf(pnl.gross_margin)
        /\ GrainsOf(pnl.gross_margin) \cup GrainsOf(pnl.variable_cost)
              \subseteq GrainsOf(pnl.contribution)

(* The half of it that concerns Gross Margin *)
C26_GrossMarginGrains ==
    PnlIsCurrent =>
        GrainsOf(pnl.revenue) \cup GrainsOf(pnl.cogs)
            \subseteq GrainsOf(pnl.gross_margin)

(* C27: every run of build_all_pnl_marts, a run in which a stage raises    *)
(* included, rebuilds the stages in order, so that afterwards no table     *)
(* holds a row of an earlier run: each table is empty or is what its stage *)
(* builds from the facts and from the tables before it as they now stand,  *)
(* and the summary holds the sums of the tables as they now stand.         *)
NoLeftoverRows ==
    /\ pnl.revenue \in {<<>>, build_mart_pnl_revenue(settlement, exchangeRate)}
    /\ pnl.cogs \in {<<>>, build_mart_pnl_cogs(shipments, returns, costStructure)}
    /\ pnl.gross_margin
          \in {<<>>, build_mart_pnl_gross_margin(pnl.revenue, pnl.cogs)}
    /\ pnl.variable_cost \in {<<>>, build_mart_pnl_variable_cost(mart)}
    /\ pnl.contribution
          \in {<<>>, build_mart_pnl_contribution(pnl.gross_margin,
                                                 pnl.variable_cost)}
    /\ pnl.operating_profit
          \in {<<>>, build_mart_pnl_operating_profit(pnl.contribution)}
    /\ pnl.waterfall_summary = build_mart_pnl_waterfall_summary(pnl)
C27_TotalOrderedRebuild ==
    [][(mart' = mart /\ pnl' # pnl) => NoLeftoverRows']_vars

(* C28: after build_all_pnl_marts, whatever the settlement, shipment,      *)
(* return and cost facts, each of the revenue, COGS, gross margin,         *)
(* contribution and operating profit tables holds at most one row per      *)
(* (period, item_id, channel_store_id, country).                           *)
OneRowPerGrain(rows) ==
    \A i, j \in 1..Len(rows) :
        (/\ rows[i].period = rows[j].period
         /\ rows[i].item_id = rows[j].item_id
         /\ rows[i].channel_store_id = rows[j].channel_store_id
         /\ rows[i].country = rows[j].country) => i = j
C28_GrainUniqueness ==
    PnlIsCurrent =>
        /\ OneRowPerGrain(pnl.revenue)
        /\ OneRowPerGrain(pnl.cogs)
        /\ OneRowPerGrain(pnl.gross_margin)
        /\ OneRowPerGrain(pnl.contribution)
        /\ OneRowPerGrain(pnl.operating_profit)

(* C29: lock ownership across a forced unlock.  The release_lock of a run  *)
(* does not clear the lock another run holds: no UPDATE of release_lock    *)
(* takes the lock row from LOCKED to UNLOCKED while another run is between *)
(* the UPDATE of its own acquire_lock and its own release_lock.  The row   *)
(* being LOCKED before the step, the operator has not unlocked it since    *)
(* the last acquire.                                                       *)
HoldsLock == {"acq_max", "acq_insert", "ingest", "marts", "rel_lock"}
C29_LockOwnership ==
    [][\A r \in Runs :
          (pc[r] = "rel_lock" /\ pc'[r] = "rel_log" /\ lock.locked)
              => \A other \in Runs \ {r} : pc[other] \notin HoldsLock]_vars

====
